---- MODULE Spec2Model ----
(***************************************************************************)
(* A model of the jenerator number services: the seven format services     *)
(* (TCKN, VKN, IBAN, credit card, IMEI, ISBN, EAN), the ServiceFactory      *)
(* instance cache and the detection engine.                                 *)
(*                                                                          *)
(* A JavaScript string is a sequence of one-character strings, so that      *)
(* cleaning, formatting, parsing and regular-expression tests are modelled  *)
(* by what they do to the characters.                                       *)
(***************************************************************************)
EXTENDS Integers, Sequences, FiniteSets, TLC

VARIABLES op, input, rnd, out, flag, thrown, possible, detected,
          serviceInstances, constructed, instance, calls

vars == <<op, input, rnd, out, flag, thrown, possible, detected,
          serviceInstances, constructed, instance, calls>>

----------------------------------------------------------------------------
(* Bounds of the model.                                                     *)

\* Digit runs (random padding, test payloads) are arithmetic progressions
\* modulo 10 whose first digit is any of 0..9 and whose step is 0..MaxStride.
MaxStride == 2

\* How many times in a row the harness repeats a call.
MaxCalls == 2

\* Range draws of the random source are decoded from a number 0..MaxPick.
MaxPick == 143

\* How many constructor calls per service class the model follows.
MaxConstructed == 2

----------------------------------------------------------------------------
(* Characters and strings.                                                  *)

DigitChars == <<"0", "1", "2", "3", "4", "5", "6", "7", "8", "9">>

LowerChars == <<"a", "b", "c", "d", "e", "f", "g", "h", "i", "j", "k", "l", "m",
                "n", "o", "p", "q", "r", "s", "t", "u", "v", "w", "x", "y", "z">>

UpperChars == <<"A", "B", "C", "D", "E", "F", "G", "H", "I", "J", "K", "L", "M",
                "N", "O", "P", "Q", "R", "S", "T", "U", "V", "W", "X", "Y", "Z">>

Range(f) == {f[i] : i \in DOMAIN f}

\* The regular-expression class \d.
Digit == Range(DigitChars)

\* The regular-expression class \s, as far as the model's alphabet goes.
Whitespace == {" ", "\t"}

IndexIn(seq, c) == CHOOSE i \in DOMAIN seq : seq[i] = c

\* Not-a-number, the result of parseInt on a non-digit.
NaN == -1

\* The value of each digit character.
DigitValue == [c \in Digit |-> IndexIn(DigitChars, c) - 1]

\* parseInt(c, 10) of one character.
ParseDigit(c) == IF c \in Digit THEN DigitValue[c] ELSE NaN

\* JavaScript arithmetic on numbers that may be NaN.
JsAdd(a, b) == IF a = NaN \/ b = NaN THEN NaN ELSE a + b
JsSub(a, b) == IF a = NaN \/ b = NaN THEN NaN ELSE a - b
JsMul(a, b) == IF a = NaN \/ b = NaN THEN NaN ELSE a * b
JsMod(a, m) == IF a = NaN THEN NaN ELSE a % m

\* Number.prototype.toString of a non-negative integer or NaN.
RECURSIVE NatToString(_)
NatToString(n) ==
    IF n < 10 THEN <<DigitChars[n + 1]>>
    ELSE NatToString(n \div 10) \o <<DigitChars[(n % 10) + 1]>>

NumToString(n) == IF n = NaN THEN <<"N", "a", "N">> ELSE NatToString(n)

\* parseInt of an all-digit string.
RECURSIVE ParseIntTo(_, _)
ParseIntTo(s, n) == IF n = 0 THEN 0 ELSE ParseIntTo(s, n - 1) * 10 + ParseDigit(s[n])

ParseInt(s) == ParseIntTo(s, Len(s))

\* String.prototype.toUpperCase / toLowerCase, one character at a time.
UpperChar(c) == IF c \in Range(LowerChars) THEN UpperChars[IndexIn(LowerChars, c)] ELSE c
LowerChar(c) == IF c \in Range(UpperChars) THEN LowerChars[IndexIn(UpperChars, c)] ELSE c
ToUpperCase(s) == [i \in DOMAIN s |-> UpperChar(s[i])]
ToLowerCase(s) == [i \in DOMAIN s |-> LowerChar(s[i])]

\* s.replace(/[...]/g, '') for a character class.
RemoveChars(s, class) == SelectSeq(s, LAMBDA c : c \notin class)

\* s.substring(from, to) with 0-based from (inclusive) and to (exclusive).
Substring(s, from, to) ==
    LET t == IF to > Len(s) THEN Len(s) ELSE to
    IN  IF from >= t THEN <<>> ELSE SubSeq(s, from + 1, t)

\* s.startsWith(p).
StartsWith(s, p) == Len(s) >= Len(p) /\ SubSeq(s, 1, Len(p)) = p

\* /^\d{n}$/.test(s).
IsDigits(s, n) == Len(s) = n /\ \A i \in DOMAIN s : s[i] \in Digit

\* /^\d+$/.test(s).
IsAllDigits(s) == Len(s) > 0 /\ \A i \in DOMAIN s : s[i] \in Digit

\* An anchored pattern such as /^5[1-5]/ is the sequence of its character
\* classes; it matches a string that has a character of each class in turn.
Matches(pattern, s) ==
    Len(s) >= Len(pattern) /\ \A i \in DOMAIN pattern : s[i] \in pattern[i]

\* The characters "lo" .. "hi" of the digit class, e.g. [2-7].
DigitsFromTo(lo, hi) == {DigitChars[d + 1] : d \in lo..hi}

\* s.padStart(n, '0').
RECURSIVE PadStart(_, _)
PadStart(s, n) == IF Len(s) >= n THEN s ELSE PadStart(<<"0">> \o s, n)

\* A run of n digits: start, start+stride, ... modulo 10.
Tape(start, stride, n) ==
    [i \in 1..n |-> DigitChars[((start + (i - 1) * stride) % 10) + 1]]

Strides == 0..MaxStride
Starts == 0..9

\* s with its i-th character replaced by c.
ReplaceAt(s, i, c) == [s EXCEPT ![i] = c]

\* s with c inserted before its i-th character.
InsertAt(s, i, c) == SubSeq(s, 1, i - 1) \o <<c>> \o SubSeq(s, i, Len(s))

\* Math.random() delivers a multiple of 1 / RandomModulus; the k-th range draw
\* of a call (k = 0, 1, ...) has the numerator pick * 5^k.
RandomModulus == MaxPick + 1

RECURSIVE RandomNumerator(_, _)
RandomNumerator(seed, k) ==
    IF k = 0 THEN seed.pick % RandomModulus
    ELSE (RandomNumerator(seed, k - 1) * 5) % RandomModulus

\* Math.floor(Math.random() * n), the k-th range draw.
Pick(seed, k, n) == (RandomNumerator(seed, k) * n) \div RandomModulus

\* Math.random() < num / den, the k-th range draw.
Below(seed, k, num, den) == RandomNumerator(seed, k) * den < num * RandomModulus

\* n draws of Math.floor(Math.random() * 10), after offset earlier digit draws.
RandomDigits(seed, offset, n) == Tape(seed.start + offset * seed.stride, seed.stride, n)

\* The random source after a round of draws that used n digit draws.
NextSeed(seed, n) ==
    [start |-> (seed.start + n * seed.stride) % 10, stride |-> seed.stride,
     pick |-> (seed.pick + 1) % RandomModulus]

\* The 1-based index of the first run of n digits in s, 0 when there is none.
FirstDigitRun(s, n) ==
    LET runs == {i \in 1..(Len(s) - n + 1) : \A j \in i..(i + n - 1) : s[j] \in Digit}
    IN  IF runs = {} THEN 0 ELSE CHOOSE i \in runs : \A j \in runs : i <= j

\* The pieces of str from the 0-based offsets cuts[k] to cuts[k + 1], joined by sep.
RECURSIVE JoinGroups(_, _, _, _)
JoinGroups(str, cuts, k, sep) ==
    IF k >= Len(cuts) THEN <<>>
    ELSE (IF k > 1 THEN <<sep>> ELSE <<>>) \o Substring(str, cuts[k], cuts[k + 1])
         \o JoinGroups(str, cuts, k + 1, sep)

\* s.replace(/(\d{a})(\d{b})...(\d{z})/, '$1 $2 ... $n'): the first run of
\* digits of the groups' total length is cut at the offsets cuts.
ReplaceGroups(s, cuts) ==
    LET n == cuts[Len(cuts)]
        i == FirstDigitRun(s, n)
    IN  IF i = 0 THEN s
        ELSE SubSeq(s, 1, i - 1) \o JoinGroups(SubSeq(s, i, i + n - 1), cuts, 1, " ")
             \o SubSeq(s, i + n, Len(s))

\* s.trim()
RECURSIVE Trim(_)
Trim(s) ==
    IF s = <<>> THEN s
    ELSE IF Head(s) \in Whitespace THEN Trim(Tail(s))
    ELSE IF s[Len(s)] \in Whitespace THEN Trim(SubSeq(s, 1, Len(s) - 1))
    ELSE s

----------------------------------------------------------------------------
(* Service types and aliases.                                               *)

TCKN == <<"t", "c", "k", "n">>
VKN == <<"v", "k", "n">>
IBAN == <<"i", "b", "a", "n">>
CREDIT_CARD == <<"c", "r", "e", "d", "i", "t", "c", "a", "r", "d">>
ISBN == <<"i", "s", "b", "n">>
EAN == <<"e", "a", "n">>
IMEI == <<"i", "m", "e", "i">>

\* Object.values(ServiceType), in declaration order.
ServiceTypeValues == <<TCKN, VKN, IBAN, CREDIT_CARD, ISBN, EAN, IMEI>>

ServiceType == Range(ServiceTypeValues)

SERVICE_ALIASES ==
    [k \in {<<"t", "c", "k", "n">>,
                <<"v", "k", "n">>,
                <<"i", "b", "a", "n">>,
                <<"c", "r", "e", "d", "i", "t", "c", "a", "r", "d">>,
                <<"i", "s", "b", "n">>,
                <<"e", "a", "n">>,
                <<"u", "p", "c">>,
                <<"i", "m", "e", "i">>} |->
        CASE k = <<"u", "p", "c">> -> EAN
          [] OTHER -> k]

\* The lower-case property names every object inherits from Object.prototype:
\* SERVICE_ALIASES[k] finds them although the table does not list them.
INHERITED_KEYS == {<<"c", "o", "n", "s", "t", "r", "u", "c", "t", "o", "r">>, <<"_", "_", "p", "r", "o", "t", "o", "_", "_">>}

\* detectServiceType's null.
Null == <<>>

\* null and undefined are no strings: each is a one-element sequence whose
\* element is not a character.
JsNull == <<"null">>
JsUndefined == <<"undefined">>

\* typeof v === 'string'
IsString(v) == v \notin {JsNull, JsUndefined}

\* String(v)
JsString(v) ==
    IF v = JsNull THEN <<"n", "u", "l", "l">>
    ELSE IF v = JsUndefined THEN <<"u", "n", "d", "e", "f", "i", "n", "e", "d">>
    ELSE v

\* What a call does: it returns a value or it throws.
Return(v) == [thrown |-> FALSE, value |-> v]
Throw == [thrown |-> TRUE, value |-> <<>>]

----------------------------------------------------------------------------
(* TcknService.                                                             *)

\* The string of n copies of the digit d.
Repeat(d, n) == [i \in 1..n |-> DigitChars[d + 1]]

INVALID_PATTERNS == {Repeat(d, 10) \o <<"0">> : d \in 1..9}

INVALID_PREFIXES == {Repeat(d, 9) : d \in 1..9}

\* for (let i = from; i < to; i += 2) sum += parseInt(prefix[i], 10)
RECURSIVE SumEverySecond(_, _, _)
SumEverySecond(prefix, from, to) ==
    IF from >= to THEN 0
    ELSE ParseDigit(prefix[from + 1]) + SumEverySecond(prefix, from + 2, to)

TcknCalculateCheckDigitsTenthOmitted(prefix) ==
    LET t1 == SumEverySecond(prefix, 0, 9)
        t2 == SumEverySecond(prefix, 1, 8)
        c10 == (10 - (((t1 * 3) + t2) % 10)) % 10
        c11 == (10 - (((t2 * 3) + t1) % 10)) % 10
    IN  [c10 |-> c10, c11 |-> c11]

TcknCalculateCheckDigits(prefix) ==
    LET t1 == SumEverySecond(prefix, 0, 9)
        t2 == SumEverySecond(prefix, 1, 8)
        c10 == (10 - (((t1 * 3) + t2) % 10)) % 10
        c11 == (10 - ((((t2 + c10) * 3) + t1) % 10)) % 10
    IN  [c10 |-> c10, c11 |-> c11]

TcknValidateNoDenylist(tckn) ==
    IF Len(tckn) # 11 THEN FALSE
    ELSE IF ~IsDigits(tckn, 11) THEN FALSE
    ELSE IF tckn[1] = "0" THEN FALSE
    ELSE LET c == TcknCalculateCheckDigits(Substring(tckn, 0, 9))
         IN  ParseDigit(tckn[10]) = c.c10 /\ ParseDigit(tckn[11]) = c.c11

TcknValidate(tckn) ==
    IF Len(tckn) # 11 THEN FALSE
    ELSE IF ~IsDigits(tckn, 11) THEN FALSE
    ELSE IF tckn[1] = "0" THEN FALSE
    ELSE IF tckn \in INVALID_PATTERNS THEN FALSE
    ELSE LET c == TcknCalculateCheckDigits(Substring(tckn, 0, 9))
         IN  ParseDigit(tckn[10]) = c.c10 /\ ParseDigit(tckn[11]) = c.c11

\* TRUE when validatePrefix returns, FALSE when it throws.
TcknValidatePrefixNoZeroRule(prefix) ==
    /\ IsDigits(prefix, 9)
    /\ prefix \notin INVALID_PREFIXES

TcknValidatePrefix(prefix) ==
    /\ IsDigits(prefix, 9)
    /\ prefix[1] # "0"
    /\ prefix \notin INVALID_PREFIXES

TcknComplete(prefix) ==
    IF ~TcknValidatePrefix(prefix) THEN Throw
    ELSE LET c == TcknCalculateCheckDigits(prefix)
         IN  Return(prefix \o NumToString(c.c10) \o NumToString(c.c11))

----------------------------------------------------------------------------
(* VknService.                                                              *)

\* Math.pow(2, n) for a non-negative integer n.
RECURSIVE Pow2(_)
Pow2(n) == IF n = 0 THEN 1 ELSE 2 * Pow2(n - 1)

\* The body of the loop of calculateCheckDigit for 0-based index i.
VknQ(prefix, i) ==
    LET d == ParseDigit(prefix[i + 1])
        pos == i + 1
        p == (d + 10 - pos) % 10
    IN  IF p = 9 THEN 9 ELSE (p * Pow2(10 - pos)) % 9

RECURSIVE VknSum(_, _)
VknSum(prefix, i) == IF i >= 9 THEN 0 ELSE VknQ(prefix, i) + VknSum(prefix, i + 1)

VknCalculateCheckDigit(prefix) == (10 - (VknSum(prefix, 0) % 10)) % 10

VknValidate(vkn) ==
    IF Len(vkn) # 10 THEN FALSE
    ELSE IF ~IsDigits(vkn, 10) THEN FALSE
    ELSE ParseDigit(vkn[10]) = VknCalculateCheckDigit(Substring(vkn, 0, 9))

\* TRUE when validatePrefix returns, FALSE when it throws.
VknValidatePrefix(prefix) == IsDigits(prefix, 9)

VknComplete(prefix) ==
    IF ~VknValidatePrefix(prefix) THEN Throw
    ELSE Return(prefix \o NumToString(VknCalculateCheckDigit(prefix)))

----------------------------------------------------------------------------
(* CreditCardService.                                                       *)

\* The network profiles, in the iteration order of Object.entries.
CARD_TYPES == <<
    [key |-> <<"v", "i", "s", "a">>, patterns |-> << <<{"4"}>> >>, lengths |-> <<13, 16, 19>>],
    [key |-> <<"m", "a", "s", "t", "e", "r", "c", "a", "r", "d">>,
     patterns |-> << <<{"5"}, DigitsFromTo(1, 5)>>, <<{"2"}, DigitsFromTo(2, 7)>> >>,
     lengths |-> <<16>>],
    [key |-> <<"a", "m", "e", "x">>, patterns |-> << <<{"3"}, {"4", "7"}>> >>, lengths |-> <<15>>],
    [key |-> <<"d", "i", "s", "c", "o", "v", "e", "r">>,
     patterns |-> << <<{"6"}, {"0"}, {"1"}, {"1"}>>, <<{"6"}, {"4"}, DigitsFromTo(4, 9)>>,
                     <<{"6"}, {"5"}>> >>,
     lengths |-> <<16>>],
    [key |-> <<"j", "c", "b">>,
     patterns |-> << <<{"3"}, {"5"}, DigitsFromTo(2, 8), DigitsFromTo(8, 9)>> >>,
     lengths |-> <<16>>],
    [key |-> <<"d", "i", "n", "e", "r", "s">>, patterns |-> << <<{"3"}, {"0", "6", "8", "9"}>> >>, lengths |-> <<14>>]
    >>

\* input.replace(/[\s\-]/g, '')
CardCleanInput(s) == RemoveChars(s, Whitespace \cup {"-"})

\* The loop of validateLuhn / calculateLuhnCheckDigit: from index i (0-based)
\* down to 0, doubling every second digit.
RECURSIVE LuhnLoop(_, _, _)
LuhnLoop(s, i, shouldDouble) ==
    IF i < 0 THEN 0
    ELSE LET digit == ParseDigit(s[i + 1])
             doubled == IF shouldDouble /\ digit # NaN
                        THEN (IF digit * 2 > 9 THEN digit * 2 - 9 ELSE digit * 2)
                        ELSE digit
         IN  JsAdd(doubled, LuhnLoop(s, i - 1, ~shouldDouble))

CardValidateLuhnDoubleFirst(cardNumber) ==
    JsMod(LuhnLoop(cardNumber, Len(cardNumber) - 1, TRUE), 10) = 0

CardValidateLuhn(cardNumber) == JsMod(LuhnLoop(cardNumber, Len(cardNumber) - 1, FALSE), 10) = 0

CardCalculateLuhnCheckDigit(payload) ==
    NumToString(JsMod(JsSub(10, JsMod(LuhnLoop(payload, Len(payload) - 1, TRUE), 10)), 10))

\* The index in CARD_TYPES of the first profile one of whose patterns matches,
\* searching from profile t; 0 stands for null.
RECURSIVE DetectCardTypeFrom(_, _)
DetectCardTypeFrom(t, cardNumber) ==
    IF t > Len(CARD_TYPES) THEN 0
    ELSE IF \E k \in DOMAIN CARD_TYPES[t].patterns :
                Matches(CARD_TYPES[t].patterns[k], cardNumber)
         THEN t
         ELSE DetectCardTypeFrom(t + 1, cardNumber)

DetectCardType(cardNumber) == DetectCardTypeFrom(1, cardNumber)

\* validateDetailed(input).isValid
CardValidate(s) ==
    LET cleanInput == CardCleanInput(s)
        cardType == DetectCardType(cleanInput)
    IN  IF cleanInput = <<>> THEN FALSE
        ELSE IF ~IsAllDigits(cleanInput) THEN FALSE
        ELSE IF cardType = 0 THEN FALSE
        ELSE IF Len(cleanInput) \notin Range(CARD_TYPES[cardType].lengths) THEN FALSE
        ELSE IF ~CardValidateLuhn(cleanInput) THEN FALSE
        ELSE TRUE

----------------------------------------------------------------------------
(* IbanService.                                                             *)

COUNTRY_CODE == <<"T", "R">>

TOTAL_LENGTH == 26

ACCOUNT_LENGTH == 16

BANK_CODES == <<1, 10, 12, 15, 32, 46, 62, 67, 111, 123, 134, 135, 143, 146, 149, 203, 206>>

\* The IBAN that complete falls back to.
FALLBACK_IBAN ==
    <<"T", "R", "3", "2", "0", "0", "1", "0", "0", "0", "9", "9", "9",
      "9", "9", "0", "1", "2", "3", "4", "5", "6", "7", "8", "9", "0">>

\* The i-th bank code (0-based), a string of five digits.
BankCode(i) == PadStart(NatToString(BANK_CODES[i + 1]), 5)

\* convertLettersToNumbers: A..Z become 10..35, other characters stay.
RECURSIVE IbanConvertLettersToNumbers(_)
IbanConvertLettersToNumbers(s) ==
    IF s = <<>> THEN <<>>
    ELSE (IF Head(s) \in Range(UpperChars)
          THEN NatToString(IndexIn(UpperChars, Head(s)) + 9)
          ELSE <<Head(s)>>) \o IbanConvertLettersToNumbers(Tail(s))

\* The loop of calculateMod97 from index i (0-based) with the remainder so far.
RECURSIVE IbanMod97LoopNoCarry(_, _, _)
IbanMod97LoopNoCarry(numericString, i, remainder) ==
    IF i >= Len(numericString) THEN remainder
    ELSE LET chunk == Substring(numericString, i, i + 7)
             number == ParseInt(chunk)
         IN  IbanMod97LoopNoCarry(numericString, i + 7, number % 97)

RECURSIVE IbanMod97Loop(_, _, _)
IbanMod97Loop(numericString, i, remainder) ==
    IF i >= Len(numericString) THEN remainder
    ELSE LET chunk == Substring(numericString, i, i + 7)
             number == ParseInt(NumToString(remainder) \o chunk)
         IN  IbanMod97Loop(numericString, i + 7, number % 97)

IbanCalculateMod97(numericString) == IbanMod97Loop(numericString, 0, 0)

\* The string whose remainder validateChecksum and calculateCheckDigits take.
IbanNumericString(iban) ==
    IbanConvertLettersToNumbers(Substring(iban, 4, Len(iban)) \o Substring(iban, 0, 4))

IbanValidateChecksum(iban) == IbanCalculateMod97(IbanNumericString(iban)) = 1

IbanCalculateCheckDigits(ibanWithPlaceholder) ==
    LET ibanWithZeros == Substring(ibanWithPlaceholder, 0, 2) \o <<"0", "0">>
                         \o Substring(ibanWithPlaceholder, 4, Len(ibanWithPlaceholder))
        remainder == IbanCalculateMod97(IbanNumericString(ibanWithZeros))
    IN  PadStart(NumToString(98 - remainder), 2)

IbanValidate(value) ==
    LET cleanNumber == ToUpperCase(RemoveChars(value, Whitespace))
    IN  IF ~StartsWith(cleanNumber, COUNTRY_CODE) THEN FALSE
        ELSE IF Len(cleanNumber) # TOTAL_LENGTH THEN FALSE
        ELSE IF ~IsDigits(Substring(cleanNumber, 2, Len(cleanNumber)), 24) THEN FALSE
        ELSE IF Substring(cleanNumber, 9, 10) # <<"0">> THEN FALSE
        ELSE IbanValidateChecksum(cleanNumber)

\* The loop of formatIban from index i (0-based): groups of four.
RECURSIVE IbanFormatLoop(_, _)
IbanFormatLoop(clean, i) ==
    IF i >= Len(clean) THEN <<>>
    ELSE (IF i > 0 THEN <<" ">> ELSE <<>>) \o Substring(clean, i, i + 4)
         \o IbanFormatLoop(clean, i + 4)

FormatIban(iban) == IbanFormatLoop(RemoveChars(iban, Whitespace), 0)

----------------------------------------------------------------------------
(* IsbnService.                                                             *)

\* input.replace(/[-\s]/g, '').toUpperCase()
IsbnCleanInput(s) == ToUpperCase(RemoveChars(s, Whitespace \cup {"-"}))

IsbnCalculateIsbn10CheckDigitNoX(sum) ==
    NumToString(JsMod(JsSub(11, JsMod(sum, 11)), 11))

IsbnCalculateIsbn10CheckDigit(sum) ==
    LET remainder == JsMod(sum, 11)
        checkDigit == JsMod(JsSub(11, remainder), 11)
    IN  IF checkDigit = 10 THEN <<"X">> ELSE NumToString(checkDigit)

\* for (let i = from; i < 9; i++) sum += (10 - i) * parseInt(isbn[i], 10)
RECURSIVE Isbn10Sum(_, _)
Isbn10Sum(isbn, i) ==
    IF i >= 9 THEN 0
    ELSE JsAdd(JsMul(10 - i, ParseDigit(isbn[i + 1])), Isbn10Sum(isbn, i + 1))

\* for (let i = from; i < 12; i++) sum += i % 2 === 0 ? digit : digit * 3
RECURSIVE Isbn13Sum(_, _)
Isbn13Sum(isbn, i) ==
    IF i >= 12 THEN 0
    ELSE LET digit == ParseDigit(isbn[i + 1])
         IN  JsAdd(IF i % 2 = 0 THEN digit ELSE JsMul(digit, 3), Isbn13Sum(isbn, i + 1))

IsbnCalculateIsbn13CheckDigit(isbn12) ==
    NumToString(JsMod(JsSub(10, JsMod(Isbn13Sum(isbn12, 0), 10)), 10))

\* /^[\dX]{10}$/.test(isbn), then the check character.
IsbnValidateIsbn10(isbn) ==
    IF ~(Len(isbn) = 10 /\ \A i \in DOMAIN isbn : isbn[i] \in Digit \cup {"X"}) THEN FALSE
    ELSE <<isbn[10]>> = IsbnCalculateIsbn10CheckDigit(Isbn10Sum(isbn, 0))

IsbnValidateIsbn13NoWrap(isbn) ==
    IF ~IsDigits(isbn, 13) THEN FALSE
    ELSE IF ~StartsWith(isbn, <<"9", "7", "8">>) /\ ~StartsWith(isbn, <<"9", "7", "9">>)
         THEN FALSE
    ELSE ParseDigit(isbn[13]) = 10 - (Isbn13Sum(isbn, 0) % 10)

IsbnValidateIsbn13(isbn) ==
    IF ~IsDigits(isbn, 13) THEN FALSE
    ELSE IF ~StartsWith(isbn, <<"9", "7", "8">>) /\ ~StartsWith(isbn, <<"9", "7", "9">>)
         THEN FALSE
    ELSE ParseDigit(isbn[13]) = (10 - (Isbn13Sum(isbn, 0) % 10)) % 10

IsbnValidate(s) ==
    LET cleaned == IsbnCleanInput(s)
    IN  IF Len(cleaned) = 10 THEN IsbnValidateIsbn10(cleaned)
        ELSE IF Len(cleaned) = 13 THEN IsbnValidateIsbn13(cleaned)
        ELSE FALSE

FormatIsbn10(isbn) ==
    IF Len(isbn) # 10 THEN isbn ELSE JoinGroups(isbn, <<0, 1, 4, 9, 10>>, 1, "-")

FormatIsbn13(isbn) ==
    IF Len(isbn) # 13 THEN isbn ELSE JoinGroups(isbn, <<0, 3, 4, 7, 12, 13>>, 1, "-")

----------------------------------------------------------------------------
(* EanService.                                                              *)

\* input.replace(/[\s\-]/g, '')
EanCleanInput(s) == RemoveChars(s, Whitespace \cup {"-"})

\* The loop of validateChecksum / calculateChecksum over the data digits,
\* from index i (0-based).
RECURSIVE EanWeightedSumFromLeft(_, _)
EanWeightedSumFromLeft(dataDigits, i) ==
    IF i >= Len(dataDigits) THEN 0
    ELSE LET weight == IF i % 2 = 0 THEN 3 ELSE 1
         IN  JsAdd(JsMul(ParseDigit(dataDigits[i + 1]), weight),
                   EanWeightedSumFromLeft(dataDigits, i + 1))

RECURSIVE EanWeightedSum(_, _)
EanWeightedSum(dataDigits, i) ==
    IF i >= Len(dataDigits) THEN 0
    ELSE LET weight == IF (Len(dataDigits) - i) % 2 = 1 THEN 3 ELSE 1
         IN  JsAdd(JsMul(ParseDigit(dataDigits[i + 1]), weight), EanWeightedSum(dataDigits, i + 1))

EanValidateChecksum(code, length) ==
    LET dataDigits == Substring(code, 0, length - 1)
        checkDigit == ParseDigit(code[length])
        calculatedCheck == (10 - (EanWeightedSum(dataDigits, 0) % 10)) % 10
    IN  checkDigit = calculatedCheck

EanCalculateChecksum(dataDigits) ==
    NumToString(JsMod(JsSub(10, JsMod(EanWeightedSum(dataDigits, 0), 10)), 10))

\* validateEan13 / validateUpcA / validateEan8: /^\d{n}$/ and the checksum.
EanValidateLength(code, length) ==
    IF ~IsDigits(code, length) THEN FALSE ELSE EanValidateChecksum(code, length)

EanValidate(s) ==
    LET cleaned == EanCleanInput(s)
    IN  IF Len(cleaned) = 13 THEN EanValidateLength(cleaned, 13)
        ELSE IF Len(cleaned) = 12 THEN EanValidateLength(cleaned, 12)
        ELSE IF Len(cleaned) = 8 THEN EanValidateLength(cleaned, 8)
        ELSE FALSE

FormatEan13(ean) ==
    IF Len(ean) # 13 THEN ean ELSE JoinGroups(ean, <<0, 1, 7, 13>>, 1, " ")

FormatUpcA(upc) ==
    IF Len(upc) # 12 THEN upc ELSE JoinGroups(upc, <<0, 1, 6, 11, 12>>, 1, " ")

FormatEan8(ean) ==
    IF Len(ean) # 8 THEN ean ELSE JoinGroups(ean, <<0, 4, 8>>, 1, " ")

----------------------------------------------------------------------------
(* ServiceFactory.                                                          *)

NormalizeServiceType(type) ==
    IF type \in ServiceType THEN Return(type)
    ELSE LET key == ToLowerCase(type)
         IN  IF key \in DOMAIN SERVICE_ALIASES THEN Return(SERVICE_ALIASES[key])
             ELSE IF key \in INHERITED_KEYS THEN Return(<<"Object.prototype">> \o key)
             ELSE [Throw EXCEPT !.value = <<"Bilinmeyen servis tipi: ">> \o type]


\* input.replace(/\s/g, '').toUpperCase()
DetectCleanInputKeepCase(s) == RemoveChars(s, Whitespace)

DetectCleanInput(s) == ToUpperCase(RemoveChars(s, Whitespace))

DetectIsbnTenOnly(cleanInput) ==
    IF Len(cleanInput) >= 1 /\ \A i \in DOMAIN cleanInput : cleanInput[i] \in Digit \cup {"X"}
    THEN IF Len(cleanInput) = 10 THEN <<ISBN>> ELSE <<>>
    ELSE <<>>

\* The ISBN block: /^[\dX]+$/ and the length.
DetectIsbn(cleanInput) ==
    IF Len(cleanInput) >= 1 /\ \A i \in DOMAIN cleanInput : cleanInput[i] \in Digit \cup {"X"}
    THEN IF Len(cleanInput) = 10 THEN <<ISBN>>
         ELSE IF Len(cleanInput) = 13
                 /\ (StartsWith(cleanInput, <<"9", "7", "8">>)
                     \/ StartsWith(cleanInput, <<"9", "7", "9">>))
              THEN <<ISBN>>
         ELSE <<>>
    ELSE <<>>

DetectByLengthOldUpc(possibleServices, length) ==
    CASE length = 8 -> <<EAN>>
      [] length = 10 -> IF VKN \in Range(possibleServices) THEN <<>> ELSE <<VKN>>
      [] length = 11 -> <<TCKN>>
      [] length = 13 -> <<EAN>>
      [] length = 15 -> <<IMEI>>
      [] OTHER -> <<>>

\* switch (cleanInput.length)
DetectByLength(possibleServices, length) ==
    CASE length = 8 -> <<EAN>>
      [] length = 10 -> IF VKN \in Range(possibleServices) THEN <<>> ELSE <<VKN>>
      [] length = 11 -> <<TCKN>>
      [] length = 12 -> <<EAN>>
      [] length = 13 -> <<EAN>>
      [] length = 15 -> <<IMEI>>
      [] OTHER -> <<>>

DETECT_CARD_PATTERNS ==
    << <<{"4"}>>,
       <<{"5"}, DigitsFromTo(1, 5)>>,
       <<{"2"}, DigitsFromTo(2, 7)>>,
       <<{"3"}, {"4", "7"}>>,
       <<{"6"}, {"0"}, {"1"}, {"1"}>>,
       <<{"6"}, {"4"}, DigitsFromTo(4, 9)>>,
       <<{"6"}, {"5"}>>,
       <<{"3"}, {"5"}, DigitsFromTo(2, 8)>>,
       <<{"3"}, {"0", "6", "8", "9"}>> >>

DetectCreditCard(cleanInput) ==
    IF Len(cleanInput) >= 13 /\ Len(cleanInput) <= 19
       /\ \E k \in DOMAIN DETECT_CARD_PATTERNS : Matches(DETECT_CARD_PATTERNS[k], cleanInput)
    THEN <<CREDIT_CARD>>
    ELSE <<>>

DetectPossibleServiceTypes(s) ==
    LET cleanInput == DetectCleanInput(s)
        isbn == DetectIsbn(cleanInput)
    IN  IF StartsWith(cleanInput, <<"T", "R">>) THEN <<IBAN>>
        ELSE IF ~IsAllDigits(cleanInput) THEN isbn
        ELSE isbn \o DetectByLength(isbn, Len(cleanInput)) \o DetectCreditCard(cleanInput)

DetectServiceTypeFirst(s) ==
    LET possibleServices == DetectPossibleServiceTypes(s)
    IN  IF Len(possibleServices) >= 1 THEN possibleServices[1] ELSE Null

DetectServiceType(s) ==
    LET possibleServices == DetectPossibleServiceTypes(s)
    IN  IF Len(possibleServices) = 1 THEN possibleServices[1] ELSE Null

----------------------------------------------------------------------------
(* ImeiService.                                                             *)

\* The type allocation codes, strings of eight digits.
COMMON_TACS ==
    <<1215200, 1215300, 1215400, 1332100, 1332200, 35238708,
      35238709, 35238710, 35999205, 35999206, 86446003, 86446103,
      86446203, 35316409, 35316410, 86585403, 86585404, 86585405,
      86585503, 86585504, 35161511, 35161512, 35161513, 35161514,
      35161515, 35925806, 35925807, 35925808, 35925809, 35925810,
      1180000, 1180100, 1180200, 35209900, 35209901, 35403906,
      35403907, 35403908, 35403909, 35403910, 86177103, 86177104,
      86177105, 86177106, 86177107, 35685302, 35685303, 35685304,
      35685305, 35685306>>

\* input.replace(/[\s\-\.]/g, '')
ImeiCleanInput(s) == RemoveChars(s, Whitespace \cup {"-", "."})

ImeiValidateLuhn(imei) == JsMod(LuhnLoop(imei, Len(imei) - 1, FALSE), 10) = 0

ImeiCalculateLuhnCheckDigitNoDouble(payload) ==
    NumToString(JsMod(JsSub(10, JsMod(LuhnLoop(payload, Len(payload) - 1, FALSE), 10)), 10))

ImeiCalculateLuhnCheckDigit(payload) ==
    NumToString(JsMod(JsSub(10, JsMod(LuhnLoop(payload, Len(payload) - 1, TRUE), 10)), 10))

\* validateDetailed(input).isValid
ImeiValidate(s) ==
    LET cleanInput == ImeiCleanInput(s)
    IN  IF cleanInput = <<>> THEN FALSE
        ELSE IF ~IsDigits(cleanInput, 15) THEN FALSE
        ELSE ImeiValidateLuhn(cleanInput)

FormatImei(imei) == ReplaceGroups(imei, <<0, 2, 8, 14, 15>>)

----------------------------------------------------------------------------
(* The generators.  seed is the state of the random source at the call.     *)

\* The do-while loop of TcknService.generate.
TcknGeneratePrefixOnce(seed) ==
    NumToString(Pick(seed, 0, 9) + 1) \o RandomDigits(seed, 0, 8)

RECURSIVE TcknGeneratePrefix(_)
TcknGeneratePrefix(seed) ==
    LET prefix == NumToString(Pick(seed, 0, 9) + 1) \o RandomDigits(seed, 0, 8)
    IN  IF prefix \in INVALID_PREFIXES THEN TcknGeneratePrefix(NextSeed(seed, 8)) ELSE prefix

TcknGenerate(seed) == TcknComplete(TcknGeneratePrefix(seed))

VknGenerate(seed) == VknComplete(RandomDigits(seed, 0, 9))

IbanGenerate(seed) ==
    LET bankCode == BankCode(Pick(seed, 0, Len(BANK_CODES)))
        accountNumber == RandomDigits(seed, 0, ACCOUNT_LENGTH)
        ibanWithoutCheckDigits == COUNTRY_CODE \o <<"0", "0">> \o bankCode \o <<"0">> \o accountNumber
        checkDigits == IbanCalculateCheckDigits(ibanWithoutCheckDigits)
    IN  Return(FormatIban(COUNTRY_CODE \o checkDigits \o bankCode \o <<"0">> \o accountNumber))

\* cardNumber.replace(/(\d{4})/g, '$1 ')
RECURSIVE CardSpaceAfterFours(_)
CardSpaceAfterFours(s) ==
    IF s = <<>> THEN <<>>
    ELSE IF Len(s) >= 4 /\ \A j \in 1..4 : s[j] \in Digit
         THEN SubSeq(s, 1, 4) \o <<" ">> \o CardSpaceAfterFours(SubSeq(s, 5, Len(s)))
    ELSE <<Head(s)>> \o CardSpaceAfterFours(Tail(s))

FormatCardNumber(cardNumber) ==
    IF Len(cardNumber) = 15 THEN ReplaceGroups(cardNumber, <<0, 4, 10, 15>>)
    ELSE IF Len(cardNumber) = 14 THEN ReplaceGroups(cardNumber, <<0, 4, 10, 14>>)
    ELSE Trim(CardSpaceAfterFours(cardNumber))

\* The prefix that generateNumberForPattern writes for a pattern; the draws
\* of the prefix are the range draws k, k + 1.
CardPrefixForPatternWholeRange(pattern, seed, k) ==
    CASE pattern = <<{"4"}>> -> <<"4">>
      [] pattern = <<{"5"}, DigitsFromTo(1, 5)>> -> <<"5">> \o NumToString(1 + Pick(seed, k, 5))
      [] pattern = <<{"2"}, DigitsFromTo(2, 7)>> ->
            LET prefix == <<"2">> \o NumToString(2 + Pick(seed, k, 6))
            IN  IF prefix = <<"2", "2">> THEN prefix \o NumToString(21 + Pick(seed, k + 1, 79))
                ELSE prefix \o PadStart(NumToString(Pick(seed, k + 1, 100)), 2)
      [] pattern = <<{"3"}, {"4", "7"}>> -> <<"3">> \o (IF Below(seed, k, 1, 2) THEN <<"4">> ELSE <<"7">>)
      [] pattern = <<{"6"}, {"0"}, {"1"}, {"1"}>> -> <<"6", "0", "1", "1">>
      [] pattern = <<{"6"}, {"4"}, DigitsFromTo(4, 9)>> -> <<"6", "4">> \o NumToString(4 + Pick(seed, k, 6))
      [] pattern = <<{"6"}, {"5"}>> -> <<"6", "5">>
      [] pattern = <<{"3"}, {"5"}, DigitsFromTo(2, 8), DigitsFromTo(8, 9)>> ->
            <<"3", "5">> \o NumToString(2 + Pick(seed, k, 7)) \o NumToString(8 + Pick(seed, k + 1, 2))
      [] pattern = <<{"3"}, {"0", "6", "8", "9"}>> -> <<"3", <<"0", "6", "8", "9">>[Pick(seed, k, 4) + 1]>>
      [] OTHER -> <<>>

CardPrefixForPattern(pattern, seed, k) ==
    CASE pattern = <<{"4"}>> -> <<"4">>
      [] pattern = <<{"5"}, DigitsFromTo(1, 5)>> -> <<"5">> \o NumToString(1 + Pick(seed, k, 5))
      [] pattern = <<{"2"}, DigitsFromTo(2, 7)>> ->
            LET prefix == <<"2">> \o NumToString(2 + Pick(seed, k, 6))
            IN  IF prefix = <<"2", "2">> THEN prefix \o NumToString(21 + Pick(seed, k + 1, 79))
                ELSE IF prefix = <<"2", "7">>
                     THEN prefix \o PadStart(NumToString(Pick(seed, k + 1, 21)), 2)
                ELSE prefix \o PadStart(NumToString(Pick(seed, k + 1, 100)), 2)
      [] pattern = <<{"3"}, {"4", "7"}>> -> <<"3">> \o (IF Below(seed, k, 1, 2) THEN <<"4">> ELSE <<"7">>)
      [] pattern = <<{"6"}, {"0"}, {"1"}, {"1"}>> -> <<"6", "0", "1", "1">>
      [] pattern = <<{"6"}, {"4"}, DigitsFromTo(4, 9)>> -> <<"6", "4">> \o NumToString(4 + Pick(seed, k, 6))
      [] pattern = <<{"6"}, {"5"}>> -> <<"6", "5">>
      [] pattern = <<{"3"}, {"5"}, DigitsFromTo(2, 8), DigitsFromTo(8, 9)>> ->
            <<"3", "5">> \o NumToString(2 + Pick(seed, k, 7)) \o NumToString(8 + Pick(seed, k + 1, 2))
      [] pattern = <<{"3"}, {"0", "6", "8", "9"}>> -> <<"3", <<"0", "6", "8", "9">>[Pick(seed, k, 4) + 1]>>
      [] OTHER -> <<>>

\* while (cardNumber.length < length - 1) cardNumber += digit
CardGenerateNumberForPattern(pattern, length, seed, k) ==
    LET prefix == CardPrefixForPattern(pattern, seed, k)
    IN  IF Len(prefix) < length - 1
        THEN prefix \o RandomDigits(seed, 0, (length - 1) - Len(prefix))
        ELSE prefix

\* The part generate and generateWithOptions share, for the profile t of
\* CARD_TYPES.
CardGenerateForType(t, seed, k) ==
    LET cardInfo == CARD_TYPES[t]
        pattern == cardInfo.patterns[1]
        length == cardInfo.lengths[1]
        cardNumber == CardGenerateNumberForPattern(pattern, length, seed, k)
        payload == Substring(cardNumber, 0, length - 1)
        checkDigit == CardCalculateLuhnCheckDigit(payload)
    IN  Return(FormatCardNumber(payload \o checkDigit))

\* The index in CARD_TYPES of the key getRandomCardType draws.
CardGetRandomCardType(seed) == Pick(seed, 0, Len(CARD_TYPES)) + 1

CardGenerate(seed) == CardGenerateForType(CardGetRandomCardType(seed), seed, 1)

\* cardType is options.cardType, the empty string when it is missing.
CardGenerateWithOptions(cardType, seed) ==
    IF cardType = <<>> THEN CardGenerateForType(CardGetRandomCardType(seed), seed, 1)
    ELSE LET found == {t \in DOMAIN CARD_TYPES : CARD_TYPES[t].key = ToLowerCase(cardType)}
         IN  IF found = {} THEN Throw
             ELSE CardGenerateForType(CHOOSE t \in found : TRUE, seed, 0)

ImeiGenerate(seed) ==
    LET tac == PadStart(NumToString(COMMON_TACS[Pick(seed, 0, Len(COMMON_TACS)) + 1]), 8)
        serialNumber == PadStart(NumToString(Pick(seed, 1, 1000000)), 6)
        payload == tac \o serialNumber
        checkDigit == ImeiCalculateLuhnCheckDigit(payload)
    IN  Return(FormatImei(payload \o checkDigit))

COMMON_PREFIXES_ISBN13 == << <<"9", "7", "8">>, <<"9", "7", "9">> >>

COMMON_GROUPS == <<"0", "1", "2", "3", "4", "5", "7", "9">>

\* generateIsbn10; the range draws of a round are k .. k + 2.
RECURSIVE IsbnGenerateIsbn10(_, _)
IsbnGenerateIsbn10(seed, k) ==
    LET group == <<COMMON_GROUPS[Pick(seed, k, Len(COMMON_GROUPS)) + 1]>>
        publisher == RandomDigits(seed, 0, 2 + Pick(seed, k + 1, 3))
        title == RandomDigits(seed, Len(publisher), 3 + Pick(seed, k + 2, 3))
        totalLength == Len(group) + Len(publisher) + Len(title)
        isbn9 == group \o publisher \o title \o Repeat(0, 9 - totalLength)
        checkDigit == IsbnCalculateIsbn10CheckDigit(Isbn10Sum(isbn9, 0))
    IN  IF totalLength > 9 THEN IsbnGenerateIsbn10(NextSeed(seed, Len(publisher) + Len(title)), k)
        ELSE FormatIsbn10(isbn9 \o checkDigit)

\* generateIsbn13; the range draws of a round are k .. k + 3.
RECURSIVE IsbnGenerateIsbn13(_, _)
IsbnGenerateIsbn13(seed, k) ==
    LET prefix == COMMON_PREFIXES_ISBN13[Pick(seed, k, Len(COMMON_PREFIXES_ISBN13)) + 1]
        group == <<COMMON_GROUPS[Pick(seed, k + 1, Len(COMMON_GROUPS)) + 1]>>
        publisher == RandomDigits(seed, 0, 2 + Pick(seed, k + 2, 3))
        title == RandomDigits(seed, Len(publisher), 3 + Pick(seed, k + 3, 3))
        totalLength == Len(prefix) + Len(group) + Len(publisher) + Len(title)
        isbn12 == prefix \o group \o publisher \o title \o Repeat(0, 12 - totalLength)
        checkDigit == IsbnCalculateIsbn13CheckDigit(isbn12)
    IN  IF totalLength > 12 THEN IsbnGenerateIsbn13(NextSeed(seed, Len(publisher) + Len(title)), k)
        ELSE FormatIsbn13(isbn12 \o checkDigit)

IsbnGenerate(seed) ==
    IF Below(seed, 0, 7, 10) THEN Return(IsbnGenerateIsbn13(seed, 1))
    ELSE Return(IsbnGenerateIsbn10(seed, 1))

\* The GS1 prefixes, strings of three digits.
COMMON_GS1_PREFIXES ==
    <<0, 1, 2, 3, 4, 5, 6, 7, 8, 9, 20, 21, 22, 23, 24, 25,
      26, 27, 28, 29, 30, 31, 32, 33, 34, 35, 36, 37, 38, 39, 40, 41,
      42, 43, 44, 45, 46, 47, 48, 49, 50, 51, 52, 53, 54, 55, 56, 57,
      58, 59, 60, 61, 62, 63, 64, 65, 66, 67, 68, 69, 70, 71, 72, 73,
      74, 75, 76, 77, 78, 79, 80, 81, 82, 83, 84, 85, 86, 87, 88, 89,
      90, 91, 92, 93, 94, 95, 96, 97, 98, 99, 100, 101, 102, 103, 104, 105,
      106, 107, 108, 109, 200, 201, 202, 203, 204, 205, 206, 207, 208, 209, 300, 301,
      302, 303, 304, 305, 306, 307, 308, 309, 380, 383, 385, 387, 400, 401, 402, 403,
      450, 451, 452, 453, 454, 455, 456, 457, 458, 459, 460, 461, 462, 463, 464, 465,
      466, 467, 468, 469, 470, 471, 474, 475, 476, 477, 478, 479, 480, 481, 482, 484,
      485, 486, 487, 488, 489, 490, 491, 492, 493, 494, 495, 496, 497, 498, 499, 500,
      501, 502, 503, 504, 505, 506, 507, 508, 509, 520, 521, 528, 529, 530, 531, 535,
      539, 540, 541, 542, 543, 544, 545, 546, 547, 548, 549, 560, 569, 570, 571, 572,
      573, 574, 575, 576, 577, 578, 579, 590, 594, 599, 600, 601, 603, 604, 608, 609,
      611, 613, 615, 616, 618, 619, 620, 621, 622, 624, 625, 626, 627, 628, 629, 640,
      641, 642, 643, 644, 645, 646, 647, 648, 649, 690, 691, 692, 693, 694, 695, 696,
      697, 698, 699, 700, 701, 702, 703, 704, 705, 706, 707, 708, 709, 729, 730, 731,
      732, 733, 734, 735, 736, 737, 738, 739, 740, 741, 742, 743, 744, 745, 746, 750,
      754, 755, 759, 760, 761, 762, 763, 764, 765, 766, 767, 768, 769, 770, 771, 773,
      775, 777, 778, 779, 780, 784, 786, 789, 790, 800, 801, 802, 803, 804, 805, 806,
      807, 808, 809, 840, 841, 842, 843, 844, 845, 846, 847, 848, 849, 850, 858, 859,
      860, 865, 867, 868, 869, 870, 871, 872, 873, 874, 875, 876, 877, 878, 879, 880,
      884, 885, 888, 890, 893, 896, 899, 900, 901, 902, 903, 904, 905, 906, 907, 908,
      909, 930, 931, 932, 933, 934, 935, 936, 937, 938, 939, 940, 941, 942, 943, 944,
      945, 946, 947, 948, 949, 950, 951, 955, 958, 977, 978, 979, 980, 981, 982, 990,
      991, 992, 993, 994, 995, 996, 997, 998, 999>>

EanGenerateEan13(seed, k) ==
    LET prefix == PadStart(NumToString(COMMON_GS1_PREFIXES[Pick(seed, k, Len(COMMON_GS1_PREFIXES)) + 1]), 3)
        manufacturer == RandomDigits(seed, 0, 3 + Pick(seed, k + 1, 3))
        product == RandomDigits(seed, Len(manufacturer), 2 + Pick(seed, k + 2, 3))
        totalLength == Len(prefix) + Len(manufacturer) + Len(product)
        joined == prefix \o manufacturer \o product
        dataDigits == IF totalLength < 12
                      THEN joined \o RandomDigits(seed, Len(manufacturer) + Len(product), 12 - totalLength)
                      ELSE IF totalLength > 12 THEN Substring(joined, 0, 12)
                      ELSE joined
    IN  FormatEan13(dataDigits \o EanCalculateChecksum(dataDigits))

EanGenerateUpcA(seed) ==
    LET firstDigit == RandomDigits(seed, 0, 1)
        manufacturer == RandomDigits(seed, 1, 5)
        product == RandomDigits(seed, 6, 5)
        dataDigits == firstDigit \o manufacturer \o product
    IN  FormatUpcA(dataDigits \o EanCalculateChecksum(dataDigits))

EanGenerateEan8(seed, k) ==
    LET country == RandomDigits(seed, 0, 2 + Pick(seed, k, 2))
        manufacturer == RandomDigits(seed, Len(country), 2 + Pick(seed, k + 1, 2))
        product == RandomDigits(seed, Len(country) + Len(manufacturer), 1 + Pick(seed, k + 2, 2))
        joined == country \o manufacturer \o product
        dataDigits == IF Len(joined) < 7
                      THEN joined \o RandomDigits(seed, Len(joined), 7 - Len(joined))
                      ELSE IF Len(joined) > 7 THEN Substring(joined, 0, 7)
                      ELSE joined
    IN  FormatEan8(dataDigits \o EanCalculateChecksum(dataDigits))

EanGenerate(seed) ==
    IF Below(seed, 0, 60, 100) THEN Return(EanGenerateEan13(seed, 1))
    ELSE IF Below(seed, 0, 85, 100) THEN Return(EanGenerateUpcA(seed))
    ELSE Return(EanGenerateEan8(seed, 1))

----------------------------------------------------------------------------
(* The completions.  seed is the state of the random source at the call.    *)

\* A non-string partialInput makes cleanInput throw a TypeError.
CardCompletePadsToTarget(partialInput, seed) ==
    IF ~IsString(partialInput) THEN Throw
    ELSE LET cleanInput == CardCleanInput(partialInput)
             cardType == DetectCardType(cleanInput)
         IN  IF cleanInput = <<>> \/ Len(cleanInput) < 4 THEN Throw
             ELSE IF cardType = 0 THEN Throw
             ELSE LET targetLength == CARD_TYPES[cardType].lengths[1]
                      completed == cleanInput
                                   \o RandomDigits(seed, 0, targetLength - Len(cleanInput))
                      checkDigit == CardCalculateLuhnCheckDigit(completed)
                  IN  IF Len(cleanInput) >= targetLength THEN Throw
                      ELSE Return(FormatCardNumber(completed \o checkDigit))

CardComplete(partialInput, seed) ==
    IF ~IsString(partialInput) THEN Throw
    ELSE LET cleanInput == CardCleanInput(partialInput)
             cardType == DetectCardType(cleanInput)
         IN  IF cleanInput = <<>> \/ Len(cleanInput) < 4 THEN Throw
             ELSE IF cardType = 0 THEN Throw
             ELSE LET targetLength == CARD_TYPES[cardType].lengths[1]
                      completed == cleanInput
                                   \o RandomDigits(seed, 0, (targetLength - 1) - Len(cleanInput))
                      checkDigit == CardCalculateLuhnCheckDigit(completed)
                  IN  IF Len(cleanInput) >= targetLength THEN Throw
                      ELSE Return(FormatCardNumber(completed \o checkDigit))

ImeiCompleteAcceptsFifteen(partialInput, seed) ==
    IF ~IsString(partialInput) THEN Throw
    ELSE LET cleanInput == ImeiCleanInput(partialInput)
             completed == cleanInput \o RandomDigits(seed, 0, 14 - Len(cleanInput))
             checkDigit == ImeiCalculateLuhnCheckDigit(completed)
         IN  IF cleanInput = <<>> \/ Len(cleanInput) < 8 THEN Throw
             ELSE IF Len(cleanInput) > 15 THEN Throw
             ELSE Return(FormatImei(completed \o checkDigit))

ImeiComplete(partialInput, seed) ==
    IF ~IsString(partialInput) THEN Throw
    ELSE LET cleanInput == ImeiCleanInput(partialInput)
             completed == cleanInput \o RandomDigits(seed, 0, 14 - Len(cleanInput))
             checkDigit == ImeiCalculateLuhnCheckDigit(completed)
         IN  IF cleanInput = <<>> \/ Len(cleanInput) < 8 THEN Throw
             ELSE IF Len(cleanInput) >= 15 THEN Throw
             ELSE Return(FormatImei(completed \o checkDigit))

\* s.padEnd(n, '0')
PadEnd(s, n) == s \o Repeat(0, n - Len(s))

\* completeAsIsbn10: both branches pad to nine characters and append the
\* check character.
IsbnCompleteAsIsbn10(partial, seed) ==
    LET needed == 9 - Len(partial)
        isbn9 == IF needed <= 0 THEN PadEnd(partial, 9)
                 ELSE partial \o RandomDigits(seed, 0, needed)
        checkDigit == IsbnCalculateIsbn10CheckDigit(Isbn10Sum(isbn9, 0))
    IN  FormatIsbn10(isbn9 \o checkDigit)

IsbnCompleteAsIsbn13KeepsPartial(partial, seed) ==
    LET needed == 12 - Len(partial)
        isbn12 == IF needed <= 0 THEN Substring(partial, 0, 12)
                  ELSE partial \o RandomDigits(seed, 0, needed)
    IN  FormatIsbn13(isbn12 \o IsbnCalculateIsbn13CheckDigit(isbn12))

IsbnCompleteAsIsbn13(partial, seed) ==
    LET workingPartial == IF ~StartsWith(partial, <<"9", "7", "8">>)
                             /\ ~StartsWith(partial, <<"9", "7", "9">>)
                          THEN <<"9", "7", "8">> \o partial
                          ELSE partial
        needed == 12 - Len(workingPartial)
        isbn12 == IF needed <= 0 THEN Substring(workingPartial, 0, 12)
                  ELSE workingPartial \o RandomDigits(seed, 0, needed)
    IN  FormatIsbn13(isbn12 \o IsbnCalculateIsbn13CheckDigit(isbn12))

IsbnComplete(partial, seed) ==
    IF ~IsString(partial) THEN Throw
    ELSE LET cleaned == IsbnCleanInput(partial)
         IN  IF Len(cleaned) >= 3 /\ Len(cleaned) < 10
             THEN Return(IsbnCompleteAsIsbn10(cleaned, seed))
             ELSE IF Len(cleaned) >= 3 /\ Len(cleaned) < 13
             THEN Return(IsbnCompleteAsIsbn13(cleaned, seed))
             ELSE Throw

\* completeAsEan13 / completeAsUpcA / completeAsEan8: length is the number
\* of data digits, 12, 11 or 7.
EanCompleteAs(partial, length, seed) ==
    LET needed == length - Len(partial)
        dataDigits == IF needed <= 0 THEN Substring(partial, 0, length)
                      ELSE partial \o RandomDigits(seed, 0, needed)
        code == dataDigits \o EanCalculateChecksum(dataDigits)
    IN  IF length = 12 THEN FormatEan13(code)
        ELSE IF length = 11 THEN FormatUpcA(code)
        ELSE FormatEan8(code)

EanComplete(partial, seed) ==
    IF ~IsString(partial) THEN Throw
    ELSE LET cleaned == EanCleanInput(partial)
         IN  IF Len(cleaned) >= 3 /\ Len(cleaned) < 7
             THEN Return(EanCompleteAs(cleaned, 7, seed))
             ELSE IF Len(cleaned) >= 7 /\ Len(cleaned) < 12
             THEN Return(EanCompleteAs(cleaned, 12, seed))
             ELSE IF Len(cleaned) >= 3 /\ Len(cleaned) < 12
             THEN Return(EanCompleteAs(cleaned, 11, seed))
             ELSE Throw

\* The try block without its catch: a prefix that is not a string has no
\* replace method.
IbanCompleteNoCatch(prefix, seed) ==
    IF ~IsString(prefix) THEN Throw
    ELSE LET clean == ToUpperCase(RemoveChars(prefix, Whitespace))
             bankCode == BankCode(0)
             accountNumber == RandomDigits(seed, 0, ACCOUNT_LENGTH)
             baseIban == COUNTRY_CODE \o <<"0", "0">> \o bankCode \o <<"0">> \o accountNumber
             checkDigits == IbanCalculateCheckDigits(baseIban)
             fullIban == COUNTRY_CODE \o checkDigits \o bankCode \o <<"0">> \o accountNumber
         IN  IF ~StartsWith(clean, COUNTRY_CODE)
             THEN IF Len(clean) = 0 THEN Return(FALLBACK_IBAN)
                  ELSE Return(<<"T", "R">> \o PadEnd(clean, 24))
             ELSE IF Len(clean) < TOTAL_LENGTH THEN Return(FormatIban(fullIban))
             ELSE Return(FormatIban(clean))

IbanComplete(prefix, seed) ==
    LET attempt ==
            IF ~IsString(prefix) THEN Throw
            ELSE LET clean == ToUpperCase(RemoveChars(prefix, Whitespace))
                     bankCode == BankCode(0)
                     accountNumber == RandomDigits(seed, 0, ACCOUNT_LENGTH)
                     baseIban == COUNTRY_CODE \o <<"0", "0">> \o bankCode \o <<"0">> \o accountNumber
                     checkDigits == IbanCalculateCheckDigits(baseIban)
                     fullIban == COUNTRY_CODE \o checkDigits \o bankCode \o <<"0">> \o accountNumber
                 IN  IF ~StartsWith(clean, COUNTRY_CODE)
                     THEN IF Len(clean) = 0 THEN Return(FALLBACK_IBAN)
                          ELSE Return(<<"T", "R">> \o PadEnd(clean, 24))
                     ELSE IF Len(clean) < TOTAL_LENGTH THEN Return(FormatIban(fullIban))
                     ELSE Return(FormatIban(clean))
    IN  IF attempt.thrown THEN Return(FALLBACK_IBAN) ELSE attempt

\* ServiceFactory.getService(type).validate(input) for a value that may be
\* null or undefined: TCKN and VKN coerce with String(), IBAN catches, the
\* other four call replace on it first.
ValidateFailsClosed(type, value) ==
    LET text == IF IsString(value) THEN value ELSE <<>>
    IN  CASE type = TCKN -> Return(TcknValidate(JsString(value)))
          [] type = VKN -> Return(VknValidate(JsString(value)))
          [] type = IBAN -> Return(IsString(value) /\ IbanValidate(text))
          [] type = CREDIT_CARD -> Return(IsString(value) /\ CardValidate(text))
          [] type = IMEI -> Return(IsString(value) /\ ImeiValidate(text))
          [] type = ISBN -> IF ~IsString(value) THEN Throw ELSE Return(IsbnValidate(text))
          [] type = EAN -> IF ~IsString(value) THEN Throw ELSE Return(EanValidate(text))

Validate(type, value) ==
    LET text == IF IsString(value) THEN value ELSE <<>>
    IN  CASE type = TCKN -> Return(TcknValidate(JsString(value)))
          [] type = VKN -> Return(VknValidate(JsString(value)))
          [] type = IBAN -> Return(IsString(value) /\ IbanValidate(text))
          [] type = CREDIT_CARD -> IF ~IsString(value) THEN Throw ELSE Return(CardValidate(text))
          [] type = IMEI -> IF ~IsString(value) THEN Throw ELSE Return(ImeiValidate(text))
          [] type = ISBN -> IF ~IsString(value) THEN Throw ELSE Return(IsbnValidate(text))
          [] type = EAN -> IF ~IsString(value) THEN Throw ELSE Return(EanValidate(text))

----------------------------------------------------------------------------
(* The command-line interface.                                              *)

GetAvailableServices == ServiceTypeValues

\* handleValidate without a service type: the results it displays, one per
\* service consulted.  A validate that throws is displayed as invalid.
HandleValidate(value) ==
    LET possibleServices == DetectPossibleServiceTypes(value)
        consulted == IF Len(possibleServices) >= 1 THEN possibleServices
                     ELSE GetAvailableServices
    IN  [i \in DOMAIN consulted |->
            LET r == Validate(consulted[i], value)
            IN  [service |-> consulted[i], isValid |-> ~r.thrown /\ r.value]]

----------------------------------------------------------------------------
(* The state machine: a caller invokes an operation on an argument.  input  *)
(* is the argument, rnd the state of the random source (what Math.random    *)
(* is going to deliver), op the last operation, and out / flag / thrown /   *)
(* possible / detected / instance hold what it returned.                    *)

\* No object: the class name is empty.
NoInstance == <<<<>>, 0>>

\* The random source: digit draws run along a tape, range draws are decoded
\* from pick.
Seeds == [start : Starts, stride : Strides, pick : 0..MaxPick]

NoSeed == [start |-> 0, stride |-> 0, pick |-> 0]

\* Before the call: nothing returned yet, the instance cache empty.
Idle(arg, seed) ==
    /\ op = "none"
    /\ input = arg
    /\ rnd = seed
    /\ out = <<>>
    /\ flag = FALSE
    /\ thrown = FALSE
    /\ possible = <<>>
    /\ detected = Null
    /\ serviceInstances = [t \in ServiceType |-> NoInstance]
    /\ constructed = [t \in ServiceType |-> 0]
    /\ instance = NoInstance
    /\ calls = 0

\* A call of a string-returning operation: r is Return(string) or Throw.
StringCall(name, r) ==
    /\ op' = name
    /\ out' = r.value
    /\ thrown' = r.thrown
    /\ UNCHANGED <<input, rnd, flag, possible, detected, serviceInstances,
                   constructed, instance>>

\* A call of validate, which returns a boolean.
BoolCall(name, b) ==
    /\ op = "none"
    /\ op' = name
    /\ flag' = b
    /\ UNCHANGED <<input, rnd, out, thrown, possible, detected, serviceInstances,
                   constructed, instance, calls>>

----------------------------------------------------------------------------
(* Completing 9-digit prefixes: TcknService.complete, VknService.complete.  *)

NonDigitChars == {"X", " ", "-", "a"}

\* The caller repeats the call on the same prefix up to MaxCalls times.
Repeated(name) ==
    /\ op \in {"none", name}
    /\ calls < MaxCalls
    /\ calls' = calls + 1

TcknCompleteCall ==
    StringCall("TcknService.complete", TcknComplete(input)) /\ Repeated("TcknService.complete")

VknCompleteCall ==
    StringCall("VknService.complete", VknComplete(input)) /\ Repeated("VknService.complete")

\* The caller passes an all-digit string of 8 to 10 characters, a 9-character
\* string with one non-digit character, or the empty string.
InitComplete ==
    \/ \E n \in 8..10, h \in Digit, a \in Starts, d \in Strides :
          Idle(<<h>> \o Tape(a, d, n - 1), NoSeed)
    \/ \E a \in Starts, d \in Strides, i \in 1..9, c \in NonDigitChars :
          Idle(ReplaceAt(Tape(a, d, 9), i, c), NoSeed)
    \/ Idle(<<>>, NoSeed)

NextComplete == TcknCompleteCall \/ VknCompleteCall

SpecComplete == InitComplete /\ [][NextComplete]_vars

\* The value of the i-th character (1-based) of a digit string.
D(s, i) == CHOOSE v \in 0..9 : DigitChars[v + 1] = s[i]

\* The sum f[1] + ... + f[n].
RECURSIVE SumTo(_, _)
SumTo(f, n) == IF n = 0 THEN 0 ELSE f[n] + SumTo(f, n - 1)

\* National-ID rule: p is 9 digits, does not start with 0, is not a repeated digit.
TcknPrefixLegal(p) ==
    /\ Len(p) = 9
    /\ \A i \in 1..9 : p[i] \in Digit
    /\ p[1] # "0"
    /\ ~(\A i \in 1..9 : p[i] = p[1])

\* National-ID checksum formula: the two check digits of a legal prefix.
TcknExpected(p) ==
    LET t1 == D(p, 1) + D(p, 3) + D(p, 5) + D(p, 7) + D(p, 9)
        t2 == D(p, 2) + D(p, 4) + D(p, 6) + D(p, 8)
        d10 == (10 - ((t1 * 3 + t2) % 10)) % 10
        d11 == (10 - (((t2 + d10) * 3 + t1) % 10)) % 10
    IN  <<DigitChars[d10 + 1], DigitChars[d11 + 1]>>

\* Tax-ID rule: p is 9 digits.
VknPrefixLegal(p) == Len(p) = 9 /\ \A i \in 1..9 : p[i] \in Digit

\* Tax-ID checksum formula: the check digit of a 9-digit prefix.
VknExpected(p) ==
    LET q == [i \in 1..9 |->
                LET pp == (D(p, i) + 10 - i) % 10
                IN  IF pp = 9 THEN 9 ELSE (pp * 2^(10 - i)) % 9]
    IN  <<DigitChars[((10 - (SumTo(q, 9) % 10)) % 10) + 1]>>

C2_State ==
    /\ op = "TcknService.complete" =>
          /\ thrown = ~TcknPrefixLegal(input)
          /\ ~thrown => out = input \o TcknExpected(input) /\ TcknValidate(out)
    /\ op = "VknService.complete" =>
          /\ thrown = ~VknPrefixLegal(input)
          /\ ~thrown => out = input \o VknExpected(input) /\ VknValidate(out)

\* A repeated call on the same prefix returns what the first call returned.
C2_Step == (op' = op /\ input' = input) => (out' = out /\ thrown' = thrown)

\* C2: TcknService.complete(p) succeeds exactly when p is 9 digits, does not
\* start with 0 and is not a repeated-digit prefix, VknService.complete(p)
\* exactly when p is 9 digits; on success the result is p followed by the
\* check digit(s) of the format's checksum formula, passes validate, and is
\* the same on every call with the same p; for every other prefix it throws.
C2_CompleteNineDigitPrefix == [](C2_State) /\ [][C2_Step]_vars

\* A TCKN prefix completed twice, and a prefix starting with 0 rejected.
C2_Witness ==
    /\ op = "TcknService.complete"
    /\ calls = 2
    /\ ~thrown
    /\ Len(out) = 11

----------------------------------------------------------------------------
(* Validating payment-card numbers.                                         *)

\* Leading digits that reach every pattern of CARD_TYPES and miss each of
\* them narrowly.
CardHeads == {NatToString(n) : n \in {4, 51, 55, 50, 56, 22, 27, 21, 28, 34, 37, 6011,
                                      6010, 644, 643, 65, 3528, 3589, 3527, 3598,
                                      30, 36, 38, 39, 31, 9}}

CardLengths == {13, 14, 15, 16, 17, 19}

\* A bare card number of n digits: a head, a run of digits and a last digit.
CardNumber(h, n, a, d, c) == h \o Tape(a, d, n - Len(h) - 1) \o <<c>>

CardValidateCall == BoolCall("CreditCardService.validate", CardValidate(input))

\* The caller passes a bare card number, a card number with a separator or
\* a stray character in it, or a string with no digit at all.
InitCard ==
    \/ \E h \in CardHeads, n \in CardLengths, a \in Starts, d \in Strides, c \in Digit :
          Idle(CardNumber(h, n, a, d, c), NoSeed)
    \/ \E h \in CardHeads, n \in CardLengths, c \in Digit, x \in {" ", "-", "\t", ".", "a"} :
          Idle(InsertAt(CardNumber(h, n, 0, 1, c), 5, x), NoSeed)
    \/ \E s \in {<<>>, <<" ">>, <<"-", " ">>} : Idle(s, NoSeed)

NextCard == CardValidateCall

SpecCard == InitCard /\ [][NextCard]_vars

\* s without its spaces (blank or tab) and hyphens.
C3_Clean(s) == SelectSeq(s, LAMBDA c : c # " " /\ c # "\t" /\ c # "-")

\* The Luhn sum of a digit string: counting from the right, every second
\* digit is doubled and 9 subtracted from a doubled digit over 9.
C3_LuhnSum(s) ==
    LET term == [i \in 1..Len(s) |->
                    LET r == Len(s) - i + 1
                        v == D(s, i)
                    IN  IF r % 2 = 1 THEN v ELSE IF 2 * v > 9 THEN 2 * v - 9 ELSE 2 * v]
    IN  SumTo(term, Len(s))

\* The legal lengths of each network.
C3_LegalLengths(key) ==
    CASE key = "visa" -> {13, 16, 19}
      [] key = "amex" -> {15}
      [] key = "diners" -> {14}
      [] OTHER -> {16}

C3_NetworkOrder == <<"visa", "mastercard", "amex", "discover", "jcb", "diners">>

C3_NetworkMatches(key, s) ==
    \E t \in DOMAIN CARD_TYPES :
        /\ CARD_TYPES[t].key = key
        /\ \E k \in DOMAIN CARD_TYPES[t].patterns : Matches(CARD_TYPES[t].patterns[k], s)

C3_Expected(s) ==
    LET c == C3_Clean(s)
    IN  /\ c # <<>>
        /\ \A i \in DOMAIN c : c[i] \in Digit
        /\ \E n \in DOMAIN C3_NetworkOrder :
              /\ C3_NetworkMatches(C3_NetworkOrder[n], c)
              /\ \A m \in 1..(n - 1) : ~C3_NetworkMatches(C3_NetworkOrder[m], c)
              /\ Len(c) \in C3_LegalLengths(C3_NetworkOrder[n])
        /\ C3_LuhnSum(c) % 10 = 0

\* C3: CreditCardService.validate(s) is true exactly when s without spaces
\* and hyphens is a non-empty all-digit string, the first network (in the
\* order visa, mastercard, amex, discover, jcb, diners) whose pattern matches
\* allows its length, and its Luhn sum is divisible by 10.
C3_CardValidateExactly ==
    op = "CreditCardService.validate" => (flag = C3_Expected(input))

\* A formatted number (with a separator) that validate accepts.
C3_Witness ==
    /\ op = "CreditCardService.validate"
    /\ flag
    /\ \E i \in DOMAIN input : input[i] \notin Digit

----------------------------------------------------------------------------
(* Validating IBANs.                                                        *)

\* An IBAN-shaped string: TR, two check digits, a bank code, the reserved
\* character and a run of 16 digits.
IbanShaped(cc, bank, reserved, a, d) ==
    COUNTRY_CODE \o PadStart(NatToString(cc), 2) \o BankCode(bank) \o <<reserved>>
    \o Tape(a, d, ACCOUNT_LENGTH)

\* What a user may make of an IBAN: grouped in fours, in lower case, with a
\* hyphen, with a letter for a digit, one character short or long, with
\* another country code.
IbanVariants(s) ==
    {FormatIban(s), ToLowerCase(s), <<"t">> \o Tail(s), InsertAt(s, 5, "-"),
     ReplaceAt(s, 12, "A"), ReplaceAt(s, 26, "x"), SubSeq(s, 1, 25), s \o <<"0">>,
     <<"G", "B">> \o SubSeq(s, 3, 26), Tail(s), <<" ">> \o s \o <<"\t">>}

IbanValidateCall == BoolCall("IbanService.validate", IbanValidate(input))

InitIban ==
    \/ \E cc \in 0..99, bank \in 0..3, reserved \in {"0", "1"}, a \in Starts, d \in Strides :
          Idle(IbanShaped(cc, bank, reserved, a, d), NoSeed)
    \/ \E cc \in 0..99, bank \in {1, 16}, a \in {3, 9} :
          \E s \in IbanVariants(IbanShaped(cc, bank, "0", a, 1)) : Idle(s, NoSeed)
    \/ \E s \in {<<>>, <<"T">>, <<"T", "R">>, FALLBACK_IBAN} : Idle(s, NoSeed)

NextIban == IbanValidateCall

SpecIban == InitIban /\ [][NextIban]_vars

\* s without blanks and tabs, in upper case.
C4_Clean(s) ==
    LET t == SelectSeq(s, LAMBDA c : c # " " /\ c # "\t")
    IN  [i \in DOMAIN t |->
            IF \E k \in 1..26 : LowerChars[k] = t[i]
            THEN UpperChars[CHOOSE k \in 1..26 : LowerChars[k] = t[i]]
            ELSE t[i]]

\* The remainder modulo m of the decimal number written by the digit values
\* v[1..n], in exact arithmetic (Horner's rule keeps every step below 10 * m).
RECURSIVE C4_ExactMod(_, _, _)
C4_ExactMod(v, n, m) == IF n = 0 THEN 0 ELSE (C4_ExactMod(v, n - 1, m) * 10 + v[n]) % m

\* The digit values of the number the checksum is taken of: the 22 digits
\* after the check digits, then 2 9 for T, 2 7 for R, then the check digits.
C4_Number(c) ==
    [i \in 1..22 |-> D(c, i + 4)] \o <<2, 9, 2, 7>> \o <<D(c, 3), D(c, 4)>>

C4_WellFormed(c) ==
    /\ Len(c) = 26
    /\ c[1] = "T" /\ c[2] = "R"
    /\ \A i \in 3..26 : c[i] \in Digit

C4_Expected(s) ==
    LET c == C4_Clean(s)
    IN  /\ C4_WellFormed(c)
        /\ c[10] = "0"
        /\ C4_ExactMod(C4_Number(c), 28, 97) = 1

\* C4: IbanService.validate(s) is true exactly when s without whitespace and
\* in upper case is TR and 24 digits, its 10th character is 0, and the number
\* obtained by moving the first four characters to the end and writing 29 for
\* T and 27 for R is 1 modulo 97 in exact arithmetic; the remainder computed
\* in 7-character chunks is the exact remainder.
C4_IbanValidateExactly ==
    op = "IbanService.validate" =>
        /\ flag = C4_Expected(input)
        /\ C4_WellFormed(C4_Clean(input)) =>
              IbanCalculateMod97(IbanNumericString(C4_Clean(input)))
                  = C4_ExactMod(C4_Number(C4_Clean(input)), 28, 97)

\* An IBAN grouped in fours that validate accepts.
C4_Witness ==
    /\ op = "IbanService.validate"
    /\ flag
    /\ Len(input) > 26

----------------------------------------------------------------------------
(* Validating ISBNs.                                                        *)

IsbnValidateCall == BoolCall("IsbnService.validate", IsbnValidate(input))

IsbnHeads == {NatToString(n) : n \in {978, 979, 977, 970, 988, 123}}

\* The caller passes ten characters (nine digits and a check character, or
\* with an X among the nine), thirteen characters, either of them with
\* hyphens, or a digit string of another length.
InitIsbn ==
    \/ \E h \in Digit, a \in Starts, d \in Strides, c \in Digit \cup {"X", "x"} :
          Idle(<<h>> \o Tape(a, d, 8) \o <<c>>, NoSeed)
    \/ \E a \in Starts, d \in Strides, i \in 1..9, c \in Digit \cup {"X"} :
          Idle(ReplaceAt(Tape(a, d, 9), i, "X") \o <<c>>, NoSeed)
    \/ \E h \in IsbnHeads, a \in Starts, d \in Strides, c \in Digit \cup {"X"} :
          Idle(h \o Tape(a, d, 9) \o <<c>>, NoSeed)
    \/ \E h \in Digit, a \in Starts, c \in Digit \cup {"X", "x"} :
          \E s \in {FormatIsbn10(<<h>> \o Tape(a, 1, 8) \o <<c>>),
                    <<" ">> \o Tape(a, 3, 8) \o <<h, "\t", c>>,
                    Tape(a, 7, 4) \o <<".", h>> \o Tape(a, 1, 4) \o <<c>>} : Idle(s, NoSeed)
    \/ \E h \in IsbnHeads, a \in Starts, c \in Digit :
          Idle(FormatIsbn13(h \o Tape(a, 1, 9) \o <<c>>), NoSeed)
    \/ \E n \in {0, 9, 11, 12, 14}, a \in Starts, d \in Strides : Idle(Tape(a, d, n), NoSeed)

NextIsbn == IsbnValidateCall

SpecIsbn == InitIsbn /\ [][NextIsbn]_vars

\* s without hyphens, blanks and tabs, in upper case.
C5_Clean(s) == C4_Clean(SelectSeq(s, LAMBDA c : c # "-"))

\* The character that writes an ISBN-10 check value.
C5_CheckChar(v) == IF v = 10 THEN "X" ELSE DigitChars[v + 1]

C5_Isbn10(c) ==
    /\ Len(c) = 10
    /\ \A i \in 1..9 : c[i] \in Digit
    /\ LET w == [i \in 1..9 |-> (10 - (i - 1)) * D(c, i)]
       IN  c[10] = C5_CheckChar((11 - (SumTo(w, 9) % 11)) % 11)

C5_Isbn13(c) ==
    /\ Len(c) = 13
    /\ \A i \in 1..13 : c[i] \in Digit
    /\ SubSeq(c, 1, 3) \in {<<"9", "7", "8">>, <<"9", "7", "9">>}
    /\ LET w == [i \in 1..12 |-> (IF i % 2 = 1 THEN 1 ELSE 3) * D(c, i)]
       IN  D(c, 13) = (10 - (SumTo(w, 12) % 10)) % 10

\* C5: IsbnService.validate(s) is true exactly when s without hyphens and
\* whitespace and in upper case is nine digits and the ISBN-10 check character
\* (a digit, or X for 10), or 13 digits starting 978 or 979 whose last digit
\* is the 1,3-weighted check digit; an X among the first nine makes it invalid.
C5_IsbnValidateExactly ==
    op = "IsbnService.validate" =>
        /\ flag = (C5_Isbn10(C5_Clean(input)) \/ C5_Isbn13(C5_Clean(input)))
        /\ (\E i \in 1..9 : i <= Len(C5_Clean(input)) /\ C5_Clean(input)[i] = "X") => ~flag

\* A hyphenated ISBN-10 with check character X that validate accepts.
C5_Witness ==
    /\ op = "IsbnService.validate"
    /\ flag
    /\ Len(input) = 13
    /\ input[13] \in {"X", "x"}

----------------------------------------------------------------------------
(* Validating EAN / UPC numbers.                                            *)

EanValidateCall == BoolCall("EanService.validate", EanValidate(input))

\* The caller passes 7 to 14 digits, bare or with a separator or a stray
\* character after the second digit.
InitEan ==
    \/ \E n \in {7, 8, 9, 11, 12, 13, 14}, h \in Digit, a \in Starts, d \in Strides, c \in Digit :
          Idle(<<h>> \o Tape(a, d, n - 2) \o <<c>>, NoSeed)
    \/ \E n \in {7, 8, 9, 11, 12, 13, 14}, a \in Starts, c \in Digit,
          x \in {" ", "-", "\t", ".", "a"} :
          Idle(InsertAt(<<"4">> \o Tape(a, 1, n - 2) \o <<c>>, 3, x), NoSeed)
    \/ Idle(<<>>, NoSeed)

NextEan == EanValidateCall

SpecEan == InitEan /\ [][NextEan]_vars

C6_Expected(s) ==
    LET c == C3_Clean(s)
        n == Len(c)
        \* the data digit at 1-based position i is at distance (n - 1) - i + 1 from
        \* the end of the data part
        w == [i \in 1..(n - 1) |-> (IF (n - i) % 2 = 1 THEN 3 ELSE 1) * D(c, i)]
    IN  /\ n \in {8, 12, 13}
        /\ \A i \in 1..n : c[i] \in Digit
        /\ D(c, n) = (10 - (SumTo(w, n - 1) % 10)) % 10

\* C6: EanService.validate(s) is true exactly when s without spaces and hyphens
\* is 8, 12 or 13 digits whose last digit is the check digit of the others,
\* weight 3 at odd distance from the end of the data part and 1 otherwise; so
\* the all-zero strings of these lengths validate and the all-nine ones do not.
C6_EanValidateExactly ==
    op = "EanService.validate" =>
        /\ flag = C6_Expected(input)
        /\ \A n \in {8, 12, 13} :
              /\ input = [i \in 1..n |-> "0"] => flag
              /\ input = [i \in 1..n |-> "9"] => ~flag

\* The all-zero EAN-13 validates.
C6_Witness ==
    /\ op = "EanService.validate"
    /\ flag
    /\ input = [i \in 1..13 |-> "0"]

----------------------------------------------------------------------------
(* Looking services up: ServiceFactory.getService.                          *)

\* new XService() for the type: the next object of its class, or the throw of
\* the switch's default case, whose message holds String(type): the source
\* text of the Object function or "[object Object]" for the two inherited
\* properties.
CreateService(type) ==
    IF type \in ServiceType THEN Return(<<type, constructed[type] + 1>>)
    ELSE [Throw EXCEPT !.value =
              <<"Desteklenmeyen servis tipi: ",
                IF type[Len(type)] = "r" THEN "function Object() { [native code] }"
                ELSE "[object Object]">>]

Has(serviceType) == serviceType \in ServiceType /\ serviceInstances[serviceType] # NoInstance

\* A throwing call leaves the cache alone; out is the message of the error.
GetServiceThrows(error) ==
    /\ thrown' = TRUE
    /\ out' = error.value
    /\ instance' = NoInstance
    /\ UNCHANGED <<serviceInstances, constructed>>

GetServiceAlwaysCreates(name) ==
    LET n == NormalizeServiceType(name)
    IN  /\ op' = "ServiceFactory.getService"
        /\ input' = name
        /\ IF n.thrown THEN GetServiceThrows(n)
           ELSE IF CreateService(n.value).thrown THEN GetServiceThrows(CreateService(n.value))
           ELSE /\ constructed[n.value] < MaxConstructed
                /\ constructed' = [constructed EXCEPT ![n.value] = @ + 1]
                /\ serviceInstances' =
                       [serviceInstances EXCEPT ![n.value] = CreateService(n.value).value]
                /\ instance' = serviceInstances'[n.value]
                /\ thrown' = FALSE
                /\ out' = <<>>
        /\ UNCHANGED <<rnd, flag, possible, detected, calls>>

GetService(name) ==
    LET n == NormalizeServiceType(name)
    IN  /\ op' = "ServiceFactory.getService"
        /\ input' = name
        /\ IF n.thrown THEN GetServiceThrows(n)
           ELSE IF Has(n.value)
                THEN /\ instance' = serviceInstances[n.value]
                     /\ thrown' = FALSE
                     /\ out' = <<>>
                     /\ UNCHANGED <<serviceInstances, constructed>>
           ELSE IF CreateService(n.value).thrown THEN GetServiceThrows(CreateService(n.value))
           ELSE /\ constructed[n.value] < MaxConstructed
                /\ constructed' = [constructed EXCEPT ![n.value] = @ + 1]
                /\ serviceInstances' =
                       [serviceInstances EXCEPT ![n.value] = CreateService(n.value).value]
                /\ instance' = serviceInstances'[n.value]
                /\ thrown' = FALSE
                /\ out' = <<>>
        /\ UNCHANGED <<rnd, flag, possible, detected, calls>>

\* The names callers pass: enum values, aliases in several letter cases,
\* inherited property names and unknown names.
FactoryNames ==
    {<<"t", "c", "k", "n">>,
     <<"T", "C", "K", "N">>,
     <<"T", "c", "K", "n">>,
     <<"v", "k", "n">>,
     <<"V", "K", "N">>,
     <<"i", "b", "a", "n">>,
     <<"I", "b", "a", "n">>,
     <<"c", "r", "e", "d", "i", "t", "c", "a", "r", "d">>,
     <<"C", "r", "e", "d", "i", "t", "C", "a", "r", "d">>,
     <<"C", "R", "E", "D", "I", "T", "C", "A", "R", "D">>,
     <<"i", "s", "b", "n">>,
     <<"I", "S", "B", "N">>,
     <<"e", "a", "n">>,
     <<"E", "A", "N">>,
     <<"E", "a", "n">>,
     <<"u", "p", "c">>,
     <<"U", "P", "C">>,
     <<"u", "P", "c">>,
     <<"i", "m", "e", "i">>,
     <<"I", "M", "E", "I">>,
     <<"c", "o", "n", "s", "t", "r", "u", "c", "t", "o", "r">>,
     <<"C", "o", "n", "s", "t", "r", "u", "c", "t", "o", "r">>,
     <<"_", "_", "p", "r", "o", "t", "o", "_", "_">>,
     <<"f", "o", "o">>,
     <<"c", "r", "e", "d", "i", "t", "-", "c", "a", "r", "d">>,
     <<"t", "c">>,
     <<>>}

InitFactory == Idle(<<>>, NoSeed)

NextFactory == \E name \in FactoryNames : GetService(name)

SpecFactory == InitFactory /\ [][NextFactory]_vars

\* The names registered for a type: its canonical name, and upc for EAN.
C7_Registered(t) == {t} \cup (IF t = EAN THEN {<<"u", "p", "c">>} ELSE {})

C7_State ==
    /\ \A t \in ServiceType : constructed[t] <= 1
    /\ \A t, u \in ServiceType :
          serviceInstances[t] = serviceInstances[u] /\ serviceInstances[t] # NoInstance => t = u
    /\ (op = "ServiceFactory.getService" /\ ~thrown) =>
          \E t \in ServiceType :
              /\ ToLowerCase(input) \in C7_Registered(t)
              /\ instance # NoInstance
              /\ instance = serviceInstances[t]
    /\ (op = "ServiceFactory.getService" /\ \E t \in ServiceType :
            ToLowerCase(input) \in C7_Registered(t)) => ~thrown

C7_Step ==
    \A t \in ServiceType :
        serviceInstances[t] # NoInstance => serviceInstances'[t] = serviceInstances[t]

\* C7: after any sequence of getService calls, a successful lookup by enum
\* value, canonical name or alias in any letter case returns the one cached
\* instance of the type it resolves to: at most one instance per type is ever
\* created, a cached instance is never replaced, and no two types share one.
C7_OneInstancePerType == [](C7_State) /\ [][C7_Step]_vars

\* A lookup by the alias UPC returned the cached EAN instance while other
\* types were cached too.
C7_Witness ==
    /\ op = "ServiceFactory.getService"
    /\ input = <<"U", "P", "C">>
    /\ ~thrown
    /\ instance = serviceInstances[EAN]
    /\ \A t \in ServiceType : constructed[t] = 1

----------------------------------------------------------------------------
(* Detecting the format of an input.                                        *)

DetectPossibleCall ==
    /\ op = "none"
    /\ op' = "ServiceFactory.detectPossibleServiceTypes"
    /\ possible' = DetectPossibleServiceTypes(input)
    /\ UNCHANGED <<input, rnd, out, flag, thrown, detected, serviceInstances,
                   constructed, instance, calls>>

\* The caller asks for the candidates and then for the single type.
DetectCall ==
    /\ op = "ServiceFactory.detectPossibleServiceTypes"
    /\ op' = "ServiceFactory.detectServiceType"
    /\ detected' = DetectServiceType(input)
    /\ UNCHANGED <<input, rnd, out, flag, thrown, possible, serviceInstances,
                   constructed, instance, calls>>

DetectHeads ==
    {<<a, b>> : a, b \in Digit}
    \cup {NatToString(n) : n \in {6011, 6010, 644, 643, 352, 351, 359, 978, 979, 977}}

DetectLengths == 7..20

\* The caller passes digit strings of the lengths around the recognised
\* ones, the same with one character replaced by a letter, X, a separator
\* or white space, and strings with the letters T and R in front.
InitDetect ==
    \/ \E h \in DetectHeads, n \in DetectLengths, a \in Starts :
          Idle(h \o Tape(a, 1, n - Len(h)), NoSeed)
    \/ \E h \in {NatToString(n) : n \in {978, 979, 123, 411}}, n \in DetectLengths, a \in Starts,
          x \in {"X", "x", "a", "-", ".", " ", "\t"} : \E i \in {1, 5, n} :
          Idle(ReplaceAt(h \o Tape(a, 1, n - Len(h)), i, x), NoSeed)
    \/ \E p \in {<<"T", "R">>, <<"t", "r">>, <<"T", "r">>, <<" ", "t", "\t", "R">>,
                 <<"R", "T">>, <<"T">>, <<"X", "T", "R">>, <<"T", "-", "R">>},
          n \in {0, 1, 8, 10, 13, 24}, a \in Starts, x \in {"0", "X", "a", " "} :
          Idle(p \o Tape(a, 1, n) \o <<x>>, NoSeed)
    \/ \E s \in {<<>>, <<" ">>, <<"T", "R">>, <<"X">>, <<"5">>} : Idle(s, NoSeed)

NextDetect == DetectPossibleCall \/ DetectCall

SpecDetect == InitDetect /\ [][NextDetect]_vars

C8_Detected == op \in {"ServiceFactory.detectPossibleServiceTypes", "ServiceFactory.detectServiceType"}

\* C8: when the input without whitespace and in upper case starts with TR,
\* whatever follows, detectPossibleServiceTypes returns exactly [IBAN]; IBAN
\* is never returned together with another format.
C8_TrPrefixIsIbanOnly ==
    C8_Detected =>
        /\ (Len(C4_Clean(input)) >= 2 /\ SubSeq(C4_Clean(input), 1, 2) = <<"T", "R">>)
               => possible = <<IBAN>>
        /\ (\E i \in DOMAIN possible : possible[i] = IBAN) => possible = <<IBAN>>

\* A lower-case tr with white space inside and more than 24 characters behind.
C8_Witness ==
    /\ C8_Detected
    /\ possible = <<IBAN>>
    /\ Len(input) > 26
    /\ SubSeq(input, 1, 4) = <<" ", "t", "\t", "R">>

C9_LengthTable == (8 :> EAN) @@ (10 :> VKN) @@ (11 :> TCKN) @@ (12 :> EAN) @@ (13 :> EAN) @@ (15 :> IMEI)

C9_Expected(c) ==
    LET digitsAndX == Len(c) > 0 /\ \A i \in DOMAIN c : c[i] \in Digit \cup {"X"}
        allDigits == Len(c) > 0 /\ \A i \in DOMAIN c : c[i] \in Digit
        byLength == SelectSeq(possible, LAMBDA t : t \notin {ISBN, CREDIT_CARD})
    IN  /\ (\E i \in DOMAIN possible : possible[i] = ISBN)
               <=> /\ digitsAndX
                   /\ \/ Len(c) = 10
                      \/ Len(c) = 13 /\ SubSeq(c, 1, 3) \in {<<"9", "7", "8">>, <<"9", "7", "9">>}
        /\ allDigits =>
               byLength = (IF Len(c) \in DOMAIN C9_LengthTable THEN <<C9_LengthTable[Len(c)]>>
                           ELSE <<>>)
        /\ (\E i \in DOMAIN c : c[i] \notin Digit) =>
               \A i \in DOMAIN possible : possible[i] = ISBN

\* C9: when the cleaned input does not start with TR, ISBN is a candidate
\* exactly when it is digits and X only and has length 10, or length 13 with
\* prefix 978 or 979; an all-digit input gets exactly one length candidate
\* for 8, 10, 11, 12, 13, 15 (EAN, VKN, TCKN, EAN, EAN, IMEI) and none
\* otherwise; an input with a non-digit gets no length and no card candidate.
C9_CandidatesByShape ==
    (C8_Detected /\ ~(Len(C4_Clean(input)) >= 2 /\ SubSeq(C4_Clean(input), 1, 2) = <<"T", "R">>))
        => C9_Expected(C4_Clean(input))

\* A 12-digit input whose only candidate is EAN, by its length.
C9_Witness ==
    /\ C8_Detected
    /\ Len(input) = 12
    /\ \A i \in DOMAIN input : input[i] \in Digit
    /\ possible = <<EAN>>

\* C10: detectServiceType returns t exactly when the candidates are [t], and
\* null when there is none or more than one; so it returns null for every
\* string of 10 digits, whose candidates are VKN and ISBN.
C10_SingleOrNull ==
    op = "ServiceFactory.detectServiceType" =>
        /\ \A t \in ServiceType : detected = t <=> possible = <<t>>
        /\ Len(possible) # 1 => detected = Null
        /\ (Len(input) = 10 /\ \A i \in DOMAIN input : input[i] \in Digit) =>
               /\ detected = Null
               /\ {possible[i] : i \in DOMAIN possible} = {VKN, ISBN}

\* Ten digits: two candidates and no single type.
C10_Witness ==
    /\ op = "ServiceFactory.detectServiceType"
    /\ Len(input) = 10
    /\ \A i \in DOMAIN input : input[i] \in Digit
    /\ Len(possible) = 2
    /\ detected = Null

----------------------------------------------------------------------------
(* Generating a number and validating it.                                   *)

\* service.validate(service.generate()): r is what generate did, valid what
\* validate says of the string it returned.
GenerateCall(name, r, valid) ==
    /\ op = "none"
    /\ op' = name
    /\ out' = r.value
    /\ thrown' = r.thrown
    /\ flag' = (~r.thrown /\ valid)
    /\ UNCHANGED <<input, rnd, possible, detected, serviceInstances, constructed, instance, calls>>

TcknGenerateCall ==
    input = <<>> /\ GenerateCall("TcknService.generate", TcknGenerate(rnd), TcknValidate(TcknGenerate(rnd).value))

VknGenerateCall ==
    input = <<>> /\ GenerateCall("VknService.generate", VknGenerate(rnd), VknValidate(VknGenerate(rnd).value))

IbanGenerateCall ==
    input = <<>> /\ GenerateCall("IbanService.generate", IbanGenerate(rnd), IbanValidate(IbanGenerate(rnd).value))

CardGenerateCall ==
    input = <<>> /\ GenerateCall("CreditCardService.generate", CardGenerate(rnd),
                                 CardValidate(CardGenerate(rnd).value))

\* input is the cardType option.
CardGenerateWithOptionsCall ==
    GenerateCall("CreditCardService.generateWithOptions", CardGenerateWithOptions(input, rnd),
                 CardValidate(CardGenerateWithOptions(input, rnd).value))

ImeiGenerateCall ==
    input = <<>> /\ GenerateCall("ImeiService.generate", ImeiGenerate(rnd), ImeiValidate(ImeiGenerate(rnd).value))

IsbnGenerateCall ==
    input = <<>> /\ GenerateCall("IsbnService.generate", IsbnGenerate(rnd), IsbnValidate(IsbnGenerate(rnd).value))

EanGenerateCall ==
    input = <<>> /\ GenerateCall("EanService.generate", EanGenerate(rnd), EanValidate(EanGenerate(rnd).value))

\* The cardType options callers pass: the six networks, in several letter
\* cases, and names of no network.
CardTypeOptions ==
    {<<"v", "i", "s", "a">>,
     <<"V", "I", "S", "A">>,
     <<"m", "a", "s", "t", "e", "r", "c", "a", "r", "d">>,
     <<"M", "a", "s", "t", "e", "r", "C", "a", "r", "d">>,
     <<"a", "m", "e", "x">>,
     <<"d", "i", "s", "c", "o", "v", "e", "r">>,
     <<"D", "i", "s", "c", "o", "v", "e", "r">>,
     <<"j", "c", "b">>,
     <<"J", "C", "B">>,
     <<"d", "i", "n", "e", "r", "s">>,
     <<"m", "a", "e", "s", "t", "r", "o">>,
     <<"v", "i", "s">>}

InitGenerate ==
    \/ \E seed \in Seeds : Idle(<<>>, seed)
    \/ \E seed \in Seeds, cardType \in CardTypeOptions : Idle(cardType, seed)

NextGenerate ==
    \/ TcknGenerateCall
    \/ VknGenerateCall
    \/ IbanGenerateCall
    \/ CardGenerateCall
    \/ CardGenerateWithOptionsCall
    \/ ImeiGenerateCall
    \/ IsbnGenerateCall
    \/ EanGenerateCall

SpecGenerate == InitGenerate /\ [][NextGenerate]_vars

C1_Generated ==
    {"TcknService.generate", "VknService.generate", "IbanService.generate",
     "CreditCardService.generate", "CreditCardService.generateWithOptions",
     "ImeiService.generate", "IsbnService.generate", "EanService.generate"}

C1_Networks == {<<"v", "i", "s", "a">>, <<"m", "a", "s", "t", "e", "r", "c", "a", "r", "d">>, <<"a", "m", "e", "x">>, <<"d", "i", "s", "c", "o", "v", "e", "r">>, <<"j", "c", "b">>, <<"d", "i", "n", "e", "r", "s">>}

\* C1: for each of the seven formats and every outcome of the random draws,
\* generate returns a string that validate accepts; so does
\* CreditCardService.generateWithOptions for each of the six networks.
C1_GeneratedValidates ==
    /\ (op \in C1_Generated /\ input = <<>>) => (~thrown /\ flag)
    /\ (op = "CreditCardService.generateWithOptions" /\ ToLowerCase(input) \in C1_Networks)
           => (~thrown /\ flag)

\* A generated national ID whose first draw of a prefix was a repeated digit,
\* which generate drew again.
C1_Witness ==
    /\ op = "TcknService.generate"
    /\ flag
    /\ Len(out) = 11
    /\ rnd.stride = 0
    /\ TcknGeneratePrefixOnce(rnd) \in INVALID_PREFIXES

----------------------------------------------------------------------------
(* SpecPartial: a caller completes a partial number.  The argument is a     *)
(* digit string, a digit string with a separator or a foreign character in  *)
(* it, a TR prefix, the empty string, null or undefined; the random source  *)
(* delivers the padding digits.                                             *)

PartialHeads ==
    {<<"4">>, <<"4", "1">>, <<"5", "1">>, <<"5", "5">>, <<"2", "2">>, <<"2", "7">>,
     <<"3", "4">>, <<"3", "7">>, <<"6", "0", "1", "1">>, <<"6", "4", "4">>, <<"6", "5">>,
     <<"3", "5", "2", "8">>, <<"3", "5", "2", "1">>, <<"3", "0">>, <<"3", "6">>,
     <<"9", "7", "8">>, <<"9", "7", "9">>, <<"9", "7">>, <<"1", "2">>, <<"0">>,
     <<"9">>, <<"0", "0">>, <<"0", "3", "6">>}

MaxTail == 15

MaxIbanTail == 27

CountryHeads == {<<"T", "R">>, <<"t", "r">>, <<"D", "E">>}

\* Partials of the test suites.
TestPartials ==
    {<<"0", "3", "6", "0", "0", "0", "2", "9", "1", "4", "5">>,
     <<"4", "0", "0", "6", "3", "8", "1", "3", "3", "3", "9", "3">>,
     <<"0", "1", "3", "4", "6", "8", "5", "9", "9", "7">>,
     <<"4", "a", "b", "c">>, <<"a", "b", "c">>,
     <<"a", "b", "c", "d", "e", "f", "g", "h">>}

ForeignChars == {" ", "-", ".", "a", "X", "\t"}

PadSeeds == [start : Starts, stride : Strides, pick : {0}]

PartialDigits(h, n) == h \o Tape(3, 1, n)

InitPartial ==
    \/ \E h \in PartialHeads, n \in 0..MaxTail, seed \in PadSeeds :
          Idle(PartialDigits(h, n), seed)
    \/ \E h \in PartialHeads, n \in {2, 5, 8, 11}, x \in ForeignChars, seed \in PadSeeds :
          /\ seed.stride = 1
          /\ \E i \in {1, 3, Len(h) + n + 1} : Idle(InsertAt(PartialDigits(h, n), i, x), seed)
    \/ \E arg \in {<<>>, JsNull, JsUndefined} \cup TestPartials, seed \in PadSeeds :
          Idle(arg, seed)
    \/ \E h \in CountryHeads, n \in 0..MaxIbanTail, seed \in PadSeeds :
          Idle(h \o Tape(3, 1, n), seed)
    \/ \E h \in CountryHeads, n \in {3, 21}, x \in ForeignChars, seed \in PadSeeds :
          seed.stride = 1 /\ Idle(InsertAt(h \o Tape(3, 1, n), 5, x), seed)

NextPartial ==
    \/ GenerateCall("CreditCardService.complete", CardComplete(input, rnd),
                    CardValidate(CardComplete(input, rnd).value))
    \/ GenerateCall("ImeiService.complete", ImeiComplete(input, rnd),
                    ImeiValidate(ImeiComplete(input, rnd).value))
    \/ GenerateCall("IsbnService.complete", IsbnComplete(input, rnd),
                    IsbnValidate(IsbnComplete(input, rnd).value))
    \/ GenerateCall("EanService.complete", EanComplete(input, rnd),
                    EanValidate(EanComplete(input, rnd).value))
    \/ GenerateCall("IbanService.complete", IbanComplete(input, rnd),
                    IbanValidate(IbanComplete(input, rnd).value))
    \/ IsString(input) /\ GenerateCall("TcknService.complete", TcknComplete(input),
                                       TcknValidate(TcknComplete(input).value))
    \/ IsString(input) /\ GenerateCall("VknService.complete", VknComplete(input),
                                       VknValidate(VknComplete(input).value))

SpecPartial == InitPartial /\ [][NextPartial]_vars

\* The network a cleaned card prefix belongs to: the first, in the order of
\* the table, with a pattern that matches.
C11_Matched(c) == \E n \in DOMAIN C3_NetworkOrder : C3_NetworkMatches(C3_NetworkOrder[n], c)

C11_Network(c) ==
    C3_NetworkOrder[CHOOSE n \in DOMAIN C3_NetworkOrder :
                        /\ C3_NetworkMatches(C3_NetworkOrder[n], c)
                        /\ \A m \in 1..(n - 1) : ~C3_NetworkMatches(C3_NetworkOrder[m], c)]

\* The target length of a network: the first of its legal lengths.
C11_TargetLength(key) ==
    CASE key = "visa" -> 13
      [] key = "amex" -> 15
      [] key = "diners" -> 14
      [] OTHER -> 16

C11_Completable(c) ==
    /\ Len(c) >= 4
    /\ C11_Matched(c)
    /\ Len(c) < C11_TargetLength(C11_Network(c))

\* C11: CreditCardService.complete(p), p without spaces and hyphens being c,
\* throws when c has fewer than 4 characters, when no network pattern
\* matches c and when c is at or over the target length of its network;
\* for an all-digit c that is none of these it returns a formatted number
\* whose digits start with c, that has the target length of the network and
\* that validate accepts, whatever the padding digits are.
C11_CardCompleteContract ==
    (op = "CreditCardService.complete" /\ IsString(input)) =>
        LET c == C3_Clean(input)
            digits == RemoveChars(out, {" "})
        IN  /\ ~C11_Completable(c) => thrown
            /\ (C11_Completable(c) /\ IsAllDigits(c)) =>
                  /\ ~thrown
                  /\ IsDigits(digits, C11_TargetLength(C11_Network(c)))
                  /\ StartsWith(digits, c)
                  /\ " " \in Range(out) /\ Head(out) # " " /\ out[Len(out)] # " "
                  /\ flag

\* A seven-digit Visa prefix written with a hyphen is completed to 13 digits.
C11_Witness ==
    /\ op = "CreditCardService.complete"
    /\ IsString(input)
    /\ "-" \in Range(input)
    /\ Len(C3_Clean(input)) = 7
    /\ ~thrown
    /\ flag
    /\ Len(RemoveChars(out, {" "})) = 13

C12_Clean(s) == SelectSeq(s, LAMBDA c : c \notin {" ", "\t", "-", "."})

\* The digit that makes the Luhn sum of payload followed by it divisible
\* by 10.
C12_LuhnDigit(payload) ==
    CHOOSE k \in Digit : C3_LuhnSum(payload \o <<k>>) % 10 = 0

C13_HasBookPrefix(c) == StartsWith(c, <<"9", "7", "8">>) \/ StartsWith(c, <<"9", "7", "9">>)

\* What the cleaned result of IsbnService.complete starts with.
C13_Kept(c) ==
    IF Len(c) >= 10 /\ ~C13_HasBookPrefix(c) THEN <<"9", "7", "8">> \o SubSeq(c, 1, 9) ELSE c

C13_Contract(kept) ==
    (op = "IsbnService.complete" /\ IsString(input)) =>
        LET c == C5_Clean(input)
            result == C5_Clean(out)
        IN  /\ (Len(c) < 3 \/ Len(c) >= 13) => thrown
            /\ (Len(c) \in 3..12 /\ IsAllDigits(c)) =>
                  /\ ~thrown
                  /\ flag
                  /\ StartsWith(result, IF kept THEN C13_Kept(c) ELSE c)
                  /\ IF Len(c) <= 9 THEN Len(result) = 10 ELSE IsDigits(result, 13)

\* C13 as stated: IsbnService.complete(p), for an all-digit p of cleaned
\* length 3 to 12, returns a string validate accepts whose cleaned form
\* starts with p, of 10 characters when p has at most 9 digits and of 13
\* digits otherwise; it throws below 3 and from 13 characters.
C13_ResultStartsWithPartial == C13_Contract(FALSE)

\* C13: IsbnService.complete(p), for an all-digit p of cleaned length 3 to
\* 12, returns a string validate accepts, of 10 characters starting with p
\* when p has at most 9 digits and of 13 digits otherwise; the 13 digits
\* start with p when p begins with 978 or 979, and with 978 followed by the
\* first nine digits of p when it does not.  It throws below 3 and from 13
\* characters.
C13_IsbnCompleteContract == C13_Contract(TRUE)

\* An eleven-digit partial without the book prefix, completed behind 978.
C13_Witness ==
    /\ op = "IsbnService.complete"
    /\ IsString(input)
    /\ IsDigits(input, 11)
    /\ ~C13_HasBookPrefix(input)
    /\ ~thrown
    /\ flag
    /\ StartsWith(C5_Clean(out), <<"9", "7", "8">>)

\* C14: EanService.complete(p), for an all-digit p, returns a number that
\* validate accepts and whose digits start with p, of 8 digits when p has 3
\* to 6 digits and of 13 digits when p has 7 to 10, whatever the padding
\* digits are; it throws when p has fewer than 3 or at least 13 digits.
C14_EanCompleteContract ==
    (op = "EanService.complete" /\ IsString(input)) =>
        LET c == C3_Clean(input)
            digits == RemoveChars(out, {" "})
        IN  /\ (Len(c) < 3 \/ Len(c) >= 13) => thrown
            /\ (Len(c) \in 3..12 /\ IsAllDigits(c)) =>
                  /\ ~thrown
                  /\ flag
                  /\ StartsWith(digits, c)
                  /\ Len(c) \in 3..6 => IsDigits(digits, 8)
                  /\ Len(c) \in 7..10 => IsDigits(digits, 13)

\* C15: EanService.complete of 11 digits returns the 12 digits of the partial
\* and its check digit, and of 12 digits the 13 digits of the partial and its
\* check digit; validate accepts both.
C15_CheckDigitAppended ==
    (op = "EanService.complete" /\ IsString(input)
        /\ (IsDigits(C3_Clean(input), 11) \/ IsDigits(C3_Clean(input), 12))) =>
        LET c == C3_Clean(input)
            digits == RemoveChars(out, {" "})
        IN  /\ ~thrown
            /\ IsDigits(digits, Len(c) + 1)
            /\ StartsWith(digits, c)
            /\ flag

\* C16: IbanService.complete(p), for a p that begins with TR and has fewer
\* than 26 characters once blanks are removed and letters are in upper case,
\* returns 26 characters in groups of four that validate accepts and that
\* start with the cleaned p.
C16_IbanCompleteKeepsPrefix ==
    (op = "IbanService.complete" /\ IsString(input)
        /\ StartsWith(C4_Clean(input), <<"T", "R">>) /\ Len(C4_Clean(input)) < 26) =>
        /\ ~thrown
        /\ Len(C4_Clean(out)) = 26
        /\ Len(out) = 32 /\ \A i \in DOMAIN out : (out[i] = " ") <=> (i % 5 = 0)
        /\ flag
        /\ StartsWith(C4_Clean(out), C4_Clean(input))

\* C17: IbanService.complete never throws: whatever it is given (null,
\* undefined, the empty string, a prefix without TR, a prefix with letters
\* or hyphens, more than 26 characters) it returns a string.
C17_IbanCompleteNeverThrows ==
    op = "IbanService.complete" => (~thrown /\ IsString(out) /\ out # <<>>)

\* complete(null) returns the fallback IBAN.
C17_Witness ==
    /\ op = "IbanService.complete"
    /\ input = JsNull
    /\ ~thrown
    /\ out = FALLBACK_IBAN

\* A name that is neither a ServiceType value nor, in lower case, a key of
\* the alias table.
C18_Unknown(x) == x \notin ServiceType /\ ToLowerCase(x) \notin DOMAIN SERVICE_ALIASES

\* C18: ServiceFactory.getService(x), for a string x that is neither a
\* ServiceType value nor (in any letter case) a key of the alias table,
\* throws the unknown-type error whose message ends with x, and leaves the
\* instance cache as it was.
C18_UnknownTypeError ==
    [][(op' = "ServiceFactory.getService" /\ C18_Unknown(input')) =>
          /\ thrown'
          /\ out' = <<"Bilinmeyen servis tipi: ">> \o input'
          /\ serviceInstances' = serviceInstances]_vars

----------------------------------------------------------------------------
(* SpecValidate: a caller validates null, undefined or a malformed string.  *)

\* Strings no format accepts: too short, or with a letter among the digits.
MalformedInputs ==
    {<<>>, <<" ">>, <<"1", "2">>, <<"T", "R">>, <<"a", "b", "c">>}
    \cup {InsertAt(PartialDigits(h, n), IF front THEN 1 ELSE Len(h) + n + 1, "a") :
            h \in PartialHeads, n \in {0, 6, 7, 9, 10, 11, 12, 14}, front \in BOOLEAN}
    \cup {<<"T", "R">> \o InsertAt(Tape(a, 1, 23), i, "a") : a \in Starts, i \in {1, 9, 24}}

InitValidate == \E arg \in {JsNull, JsUndefined} \cup MalformedInputs : Idle(arg, NoSeed)

ValidateCall(name, type) ==
    /\ op = "none"
    /\ op' = name
    /\ thrown' = Validate(type, input).thrown
    /\ flag' = (~Validate(type, input).thrown /\ Validate(type, input).value)
    /\ UNCHANGED <<input, rnd, out, possible, detected, serviceInstances, constructed,
                   instance, calls>>

NextValidate ==
    \/ ValidateCall("TcknService.validate", TCKN)
    \/ ValidateCall("VknService.validate", VKN)
    \/ ValidateCall("IbanService.validate", IBAN)
    \/ ValidateCall("CreditCardService.validate", CREDIT_CARD)
    \/ ValidateCall("ImeiService.validate", IMEI)
    \/ ValidateCall("IsbnService.validate", ISBN)
    \/ ValidateCall("EanService.validate", EAN)

SpecValidate == InitValidate /\ [][NextValidate]_vars

C19_Validators ==
    {"TcknService.validate", "VknService.validate", "IbanService.validate",
     "CreditCardService.validate", "ImeiService.validate", "IsbnService.validate",
     "EanService.validate"}

\* validate returned false, or threw and is one of the validators that may
\* throw, which they do on null and undefined only.
C19_Contract(throwing) ==
    op \in C19_Validators =>
        /\ ~flag
        /\ thrown <=> (op \in throwing /\ ~IsString(input))

\* C19 as stated: on null, undefined and malformed strings the TCKN, VKN,
\* IBAN, credit-card and IMEI validators return false without throwing; the
\* ISBN and EAN validators throw, on null and undefined only.
C19_OnlyIsbnAndEanThrow == C19_Contract({"IsbnService.validate", "EanService.validate"})

\* C19: on null, undefined and malformed strings the TCKN, VKN and IBAN
\* validators return false without throwing; the credit-card, IMEI, ISBN and
\* EAN validators throw on null and undefined, and return false on every
\* malformed string.
C19_ValidateOnMalformedInput ==
    C19_Contract({"CreditCardService.validate", "ImeiService.validate",
                  "IsbnService.validate", "EanService.validate"})

\* The credit-card validator threw on null.
C19_Witness ==
    /\ op = "CreditCardService.validate"
    /\ input = JsNull
    /\ thrown

\* The prefix as each service cleans it.
C20_Cleaned ==
    CASE op \in {"CreditCardService.complete", "EanService.complete"} -> C3_Clean(input)
      [] op = "ImeiService.complete" -> C12_Clean(input)
      [] op = "IsbnService.complete" -> C5_Clean(input)
      [] OTHER -> input

\* C20: complete of every format other than IBAN throws whenever the
\* cleaned prefix holds a character that is not a digit, whatever its
\* length; it returns no string built from such a prefix.
C20_CompleteRejectsNonDigits ==
    (/\ op \in {"TcknService.complete", "VknService.complete", "CreditCardService.complete",
                "ImeiService.complete", "IsbnService.complete", "EanService.complete"}
     /\ IsString(input)
     /\ \E i \in DOMAIN C20_Cleaned : C20_Cleaned[i] \notin Digit) => thrown

\* The number written by the first four digits of s.
C21_FirstFour(s) == 1000 * D(s, 1) + 100 * D(s, 2) + 10 * D(s, 3) + D(s, 4)

\* C21: CreditCardService.validate accepts no all-digit string whose first
\* four digits are 2xxx outside 2221..2720: a number beginning with 2 is a
\* Mastercard only inside that range.
C21_TwoSeriesBounded ==
    (/\ op = "CreditCardService.validate"
     /\ IsAllDigits(input)
     /\ Len(input) >= 4
     /\ input[1] = "2"
     /\ C21_FirstFour(input) \notin 2221..2720) => ~flag

\* C22: for an all-digit input of 13 to 19 digits, CREDIT_CARD is among the
\* candidates of detectPossibleServiceTypes exactly when a pattern of one of
\* the six profiles of CARD_TYPES matches the input.
C22_DetectorAgreesWithCardTypes ==
    (/\ op = "ServiceFactory.detectPossibleServiceTypes"
     /\ IsAllDigits(input)
     /\ Len(input) \in 13..19) =>
        (CREDIT_CARD \in Range(possible) <=> C11_Matched(input))

\* clean: s without spaces, hyphens and dots, letters in upper case.
C23_Clean(s) == ToUpperCase(C12_Clean(s))

\* C23: detectPossibleServiceTypes(s) equals
\* detectPossibleServiceTypes(clean(s)) for every s: separators do not
\* change the candidates.
C23_DetectionIgnoresSeparators ==
    op = "ServiceFactory.detectPossibleServiceTypes" =>
        possible = DetectPossibleServiceTypes(C23_Clean(input))

----------------------------------------------------------------------------
(* SpecTckn: a caller validates a string and then completes its first nine  *)
(* characters.                                                              *)

\* The caller passes eleven digits with any two last digits (among them
\* numbers with small digits at the odd places), digit strings of 9, 10 and
\* 12 characters, or eleven characters one of which is no digit.
InitTckn ==
    \/ \E h \in Digit, a \in Starts, d \in Strides, c10 \in Digit, c11 \in Digit :
          Idle(<<h>> \o Tape(a, d, 8) \o <<c10, c11>>, NoSeed)
    \/ \E h \in {"1", "2"}, e \in Digit, c10 \in Digit, c11 \in Digit :
          Idle(<<h, e, "0", e, "0", e, "0", e, "0", c10, c11>>, NoSeed)
    \/ \E h \in Digit, a \in Starts, n \in {9, 10, 12} : Idle(<<h>> \o Tape(a, 1, n - 1), NoSeed)
    \/ \E a \in Starts, i \in {1, 5, 10, 11}, x \in {"a", " ", "X"} :
          Idle(ReplaceAt(<<"1">> \o Tape(a, 1, 10), i, x), NoSeed)

NextTckn ==
    \/ BoolCall("TcknService.validate", TcknValidate(input))
    \/ /\ op = "TcknService.validate"
       /\ StringCall("TcknService.complete", TcknComplete(Substring(input, 0, 9)))
       /\ UNCHANGED calls

SpecTckn == InitTckn /\ [][NextTckn]_vars

\* The two check digits of the eleven digits s by the rules of the number:
\* seven times the odd-placed digits less the even-placed ones, and the sum
\* of the first ten.
C24_Rules(s) ==
    /\ D(s, 10) = (7 * (D(s, 1) + D(s, 3) + D(s, 5) + D(s, 7) + D(s, 9))
                   - (D(s, 2) + D(s, 4) + D(s, 6) + D(s, 8))) % 10
    /\ D(s, 11) = (D(s, 1) + D(s, 2) + D(s, 3) + D(s, 4) + D(s, 5) + D(s, 6) + D(s, 7)
                   + D(s, 8) + D(s, 9) + D(s, 10)) % 10

\* C24: every number TcknService.validate accepts, and every number
\* TcknService.complete returns, is eleven digits whose 10th digit is
\* (7 * (d1 + d3 + d5 + d7 + d9) - (d2 + d4 + d6 + d8)) mod 10 and whose
\* 11th digit is (d1 + ... + d10) mod 10.
C24_CheckDigitRules ==
    /\ (op \in {"TcknService.validate", "TcknService.complete"} /\ flag) =>
          (IsDigits(input, 11) /\ C24_Rules(input))
    /\ (op = "TcknService.complete" /\ ~thrown) => (IsDigits(out, 11) /\ C24_Rules(out))

\* A prefix with 7 * odd sum below the even sum was completed.
C24_Witness ==
    /\ op = "TcknService.complete"
    /\ ~thrown
    /\ IsDigits(out, 11)
    /\ 7 * (D(out, 1) + D(out, 3) + D(out, 5) + D(out, 7) + D(out, 9))
          < D(out, 2) + D(out, 4) + D(out, 6) + D(out, 8)

----------------------------------------------------------------------------
(* SpecLuhn: the Luhn functions of the card and the IMEI service applied to *)
(* one payload.                                                             *)

MaxPayload == 16

\* The digits d for which validate(payload followed by d) holds, in order.
PassingDigits(validate(_), payload) ==
    SelectSeq(DigitChars, LAMBDA d : validate(payload \o <<d>>))

\* The caller passes a digit string, or a digit string with a letter in it.
InitLuhn ==
    \/ \E n \in 0..MaxPayload, a \in Starts, d \in Starts : Idle(Tape(a, d, n), NoSeed)
    \/ \E n \in 1..MaxPayload, a \in Starts : \E i \in {1, n} :
          Idle(ReplaceAt(Tape(a, 1, n), i, "a"), NoSeed)

\* out and possible[1] hold what the card service computes, detected and
\* possible[2] what the IMEI service computes.
NextLuhn ==
    /\ op = "none"
    /\ op' = "calculateLuhnCheckDigit"
    /\ out' = CardCalculateLuhnCheckDigit(input)
    /\ detected' = ImeiCalculateLuhnCheckDigit(input)
    /\ possible' = <<PassingDigits(CardValidateLuhn, input), PassingDigits(ImeiValidateLuhn, input)>>
    /\ UNCHANGED <<input, rnd, flag, thrown, serviceInstances, constructed, instance, calls>>

SpecLuhn == InitLuhn /\ [][NextLuhn]_vars

\* C25: calculateLuhnCheckDigit(p) of a digit string p is the one digit d for
\* which validateLuhn(p followed by d) is true, and the card and the IMEI
\* implementation of both functions give the same results on every input.
C25_LuhnDigitUnique ==
    op = "calculateLuhnCheckDigit" =>
        /\ out = detected
        /\ possible[1] = possible[2]
        /\ (\A i \in DOMAIN input : input[i] \in Digit) => possible[1] = out

\* A payload of 14 digits whose Luhn digit is not 0.
C25_Witness ==
    /\ op = "calculateLuhnCheckDigit"
    /\ IsDigits(input, 14)
    /\ possible[1] = out
    /\ out # <<"0">>

----------------------------------------------------------------------------
(* SpecPattern: generateNumberForPattern called with a pattern and a length *)
(* of one profile of CARD_TYPES.  input is the pattern, instance the        *)
(* profile's key and the length.                                            *)

InitPattern == \E seed \in Seeds : Idle(<<>>, seed)

NextPattern ==
    \E t \in DOMAIN CARD_TYPES :
        \E p \in DOMAIN CARD_TYPES[t].patterns, l \in DOMAIN CARD_TYPES[t].lengths :
            /\ op = "none"
            /\ op' = "CreditCardService.generateNumberForPattern"
            /\ input' = CARD_TYPES[t].patterns[p]
            /\ instance' = <<CARD_TYPES[t].key, CARD_TYPES[t].lengths[l]>>
            /\ out' = CardGenerateNumberForPattern(CARD_TYPES[t].patterns[p],
                                                   CARD_TYPES[t].lengths[l], rnd, 0)
            /\ UNCHANGED <<rnd, flag, thrown, possible, detected, serviceInstances,
                           constructed, calls>>

SpecPattern == InitPattern /\ [][NextPattern]_vars

\* C26: whatever is drawn, the number generateNumberForPattern synthesizes
\* matches the pattern it was made for and has one digit less than the
\* target length; for the Mastercard 2-series its first four digits are in
\* 2221..2720 and for the Discover 64x pattern its first three in 644..649.
C26_SynthesizedWithinRange ==
    op = "CreditCardService.generateNumberForPattern" =>
        /\ IsDigits(out, instance[2] - 1)
        /\ Matches(input, out)
        /\ out[1] = "2" => C21_FirstFour(out) \in 2221..2720
        /\ (out[1] = "6" /\ out[2] = "4") =>
              100 * D(out, 1) + 10 * D(out, 2) + D(out, 3) \in 644..649

\* The upper end of the 2-series was drawn.
C26_Witness ==
    /\ op = "CreditCardService.generateNumberForPattern"
    /\ StartsWith(out, <<"2", "7", "2", "0">>)

----------------------------------------------------------------------------
(* SpecCheckDigits: calculateCheckDigits applied to an IBAN with the        *)
(* placeholder 00, as generate and complete call it.  out holds the check   *)
(* digits, possible every two-digit value with which the IBAN validates.    *)

\* The two-digit strings 00..99.
TwoDigits == [i \in 1..100 |-> PadStart(NatToString(i - 1), 2)]

\* iban with cc at the check-digit positions.
WithCheckDigits(iban, cc) == Substring(iban, 0, 2) \o cc \o Substring(iban, 4, Len(iban))

InitCheckDigits ==
    \E bank \in 0..(Len(BANK_CODES) - 1), a \in Starts, d \in Strides :
        Idle(IbanShaped(0, bank, "0", a, d), NoSeed)

NextCheckDigits ==
    /\ op = "none"
    /\ op' = "IbanService.calculateCheckDigits"
    /\ out' = IbanCalculateCheckDigits(input)
    /\ possible' = SelectSeq(TwoDigits, LAMBDA cc : IbanValidate(WithCheckDigits(input, cc)))
    /\ UNCHANGED <<input, rnd, flag, thrown, detected, serviceInstances, constructed, instance, calls>>

SpecCheckDigits == InitCheckDigits /\ [][NextCheckDigits]_vars

\* C27: for a 5-digit bank code b and a 16-digit account number a,
\* calculateCheckDigits yields two digits cc between 02 and 98, TR cc b 0 a
\* passes validate, and no other two-digit value makes that IBAN pass validate.
C27_CheckDigitsUnique ==
    op = "IbanService.calculateCheckDigits" =>
        /\ IsDigits(out, 2)
        /\ ParseInt(out) \in 2..98
        /\ possible = <<out>>

\* C28: validate and complete of the TCKN service agree: s passes validate
\* exactly when s has 11 characters and complete(the first 9 characters of s)
\* returns s; a number with a prefix that complete rejects never validates.
C28_ValidateAgreesWithComplete ==
    op = "TcknService.complete" =>
        (flag <=> (Len(input) = 11 /\ ~thrown /\ out = input))

\* A denylisted pattern: validate refused it and complete refused its prefix.
C28_Witness ==
    /\ op = "TcknService.complete"
    /\ input \in INVALID_PATTERNS
    /\ ~flag
    /\ thrown

----------------------------------------------------------------------------
(* SpecCli: the user asks the command line to validate a value without      *)
(* naming a service.  possible holds the detected candidates, detected the  *)
(* results displayed, instance what each service's validate says.           *)

CliHeads == {NatToString(n) : n \in
        {1, 4, 22, 27, 30, 34, 36, 37, 38, 51, 55, 65, 86, 123, 352, 358, 3528,
         644, 649, 6011, 977, 978, 979}}

CliLengths == {8, 10, 11, 12, 13, 14, 15, 16}

\* The user passes a digit string with any last digit, the same with a
\* separator or a letter in it, an ISBN-10 ending in X, or an IBAN with any
\* check digits, bare, in lower case or grouped.
InitCli ==
    \/ \E h \in CliHeads, n \in CliLengths, a \in Starts, c \in Digit :
          Idle(h \o Tape(a, 1, n - Len(h) - 1) \o <<c>>, NoSeed)
    \/ \E h \in CliHeads, n \in CliLengths, c \in Digit, x \in {" ", "\t", "-", ".", "a"} :
          Idle(InsertAt(h \o Tape(3, 1, n - Len(h) - 1) \o <<c>>, 5, x), NoSeed)
    \/ \E h \in Digit, a \in Starts, d \in Strides, c \in {"X", "x"} :
          Idle(<<h>> \o Tape(a, d, 8) \o <<c>>, NoSeed)
    \/ \E cc \in 0..99, bank \in {1, 16}, lower \in BOOLEAN, grouped \in BOOLEAN :
          LET s == IbanShaped(cc, bank, "0", 3, 1)
              t == IF grouped THEN FormatIban(s) ELSE s
          IN  Idle(IF lower THEN ToLowerCase(t) ELSE t, NoSeed)

HandleValidateCall ==
    /\ op = "none"
    /\ op' = "JeneratorCLI.handleValidate"
    /\ possible' = DetectPossibleServiceTypes(input)
    /\ detected' = HandleValidate(input)
    /\ instance' = [F \in ServiceType |-> Validate(F, input).value]
    /\ UNCHANGED <<input, rnd, out, flag, thrown, serviceInstances, constructed, calls>>

NextCli == HandleValidateCall

SpecCli == InitCli /\ [][NextCli]_vars

\* C29: detection never hides a valid number: when the input has no hyphen
\* and no dot and the validate of a format F accepts it, F is among
\* detectPossibleServiceTypes(input), and handleValidate displays F as valid.
C29_DetectionNeverHidesValid ==
    (op = "JeneratorCLI.handleValidate" /\ \A i \in DOMAIN input : input[i] \notin {"-", "."}) =>
        \A F \in ServiceType :
            instance[F] =>
                /\ F \in Range(possible)
                /\ \E i \in DOMAIN detected : detected[i] = [service |-> F, isValid |-> TRUE]

\* A valid ISBN-13, which is a valid EAN-13 too: both are detected and both
\* are displayed as valid.
C29_Witness ==
    /\ op = "JeneratorCLI.handleValidate"
    /\ IsDigits(input, 13)
    /\ instance[ISBN] /\ instance[EAN]
    /\ possible = <<ISBN, EAN>>
    /\ Len(detected) = 2

----------------------------------------------------------------------------
(* SpecBook: the ISBN and the EAN service validate the same input.  flag    *)
(* holds what IsbnService.validate says, detected what EanService.validate  *)
(* says.                                                                    *)

BookHeads == {NatToString(n) : n \in {978, 979, 977, 970, 400, 123}}

\* The caller passes thirteen digits with any last digit, the same with a
\* hyphen, a blank, a letter or an X in or after it, or twelve and fourteen
\* digits.
InitBook ==
    \/ \E h \in BookHeads, a \in Starts, d \in Starts, c \in Digit :
          Idle(h \o Tape(a, d, 9) \o <<c>>, NoSeed)
    \/ \E h \in BookHeads, a \in Starts, c \in Digit, x \in {"-", " ", "a", "X", "."} :
          \E i \in {1, 4, 13, 14} :
              Idle(InsertAt(h \o Tape(a, 1, 9) \o <<c>>, i, x), NoSeed)
    \/ \E h \in BookHeads, a \in Starts, c \in Digit, x \in {"a", "X", "x"} : \E i \in {1, 5, 13} :
          Idle(ReplaceAt(h \o Tape(a, 1, 9) \o <<c>>, i, x), NoSeed)
    \/ \E h \in BookHeads, a \in Starts, c \in Digit, n \in {8, 10} :
          Idle(h \o Tape(a, 1, n) \o <<c>>, NoSeed)

NextBook ==
    /\ op = "none"
    /\ op' = "validate"
    /\ flag' = IsbnValidate(input)
    /\ detected' = EanValidate(input)
    /\ UNCHANGED <<input, rnd, out, thrown, possible, serviceInstances, constructed, instance, calls>>

SpecBook == InitBook /\ [][NextBook]_vars

\* C30: when the cleaned input has 13 characters, IsbnService.validate being
\* true implies EanService.validate is true, and on 13-digit strings that
\* start with 978 or 979 the two validators return the same result.
C30_Isbn13IsEan13 ==
    (op = "validate" /\ Len(EanCleanInput(input)) = 13) =>
        /\ flag => detected
        /\ (IsDigits(input, 13) /\ C13_HasBookPrefix(input)) => (flag <=> detected)

\* A valid ISBN-13 whose check digit is 0, written with a hyphen.
C30_Witness ==
    /\ op = "validate"
    /\ flag /\ detected
    /\ Len(input) = 14
    /\ input[14] = "0"

====
